---- MODULE Spec2Model ----
(***************************************************************************)
(* Verification model of the frame post-processing services of             *)
(* ASIOverlayWatchdog:                                                     *)
(*   - services/ascom_safety.py  (ASCOMSafetyWriter, the safety signal)    *)
(*   - services/rtsp_output.py   (RTSPStreamServer, the RTSP bridge)       *)
(*   - services/cleanup.py       (run_cleanup, the eviction engine)        *)
(* Each service has its own specification (SpecSafety, SpecRTSP,           *)
(* SpecCleanup); the variables of the other services keep their initial    *)
(* values under it.                                                        *)
(***************************************************************************)
EXTENDS Integers, Sequences, FiniteSets, TLC

VARIABLES
    \* ---- services/ascom_safety.py ----
    writer,      \* the ASCOMSafetyWriter instance (its fields)
    fs,          \* the file system: path -> file (exists, lines)
    dirs,        \* the directories that exist
    wpc,         \* where the write_status call stands
    ml,          \* the ml_results argument of the call in progress
    content,     \* the local `content` of write_status (a sequence of lines)
    ret,         \* the value the last write_status call returned
    now,         \* the wall clock read by datetime.now()
    skipped,     \* history: the last call returned before building the content
    rmFailed,    \* history: the cleanup os.remove of the last call raised OSError
    lastOk,      \* history: roof_status of the last call that returned True
    winst,       \* _writer_instance is not None (it is then `writer`)
    wcall,       \* history: the last write_ascom_safety_file call
    tpc,         \* two concurrent callers of write_status: where each stands
    tdoc,        \* their local `content`
    thandle,     \* where the file each has open by open(temp_path, 'w') is now
    tret,        \* the value the last call of each returned
    twrote,      \* history: the contents their calls have built so far
    \* ---- services/rtsp_output.py ----
    running,     \* self.running
    process,     \* self.process: 0 (None) or the index of a subprocess in procs
    procs,       \* every encoder subprocess spawned so far
    frame_size,  \* self.frame_size
    last_frame,  \* self.last_frame (the current-frame cell)
    threads,     \* every pump thread started so far (_frame_sender_loop)
    cpc,         \* where the caller of start() / stop() stands
    upc,         \* where the caller of update_image() stands
    uloc,        \* locals of update_image / _restart_ffmpeg
    nframes,     \* number of update_image calls made
    sOld,        \* history: self.process when the last stop() began
    rconf,       \* self.host, self.port, self.stream_name
    sret,        \* history: how the last start() call ended
    stored,      \* history: the frames update_image has stored so far
    \* ---- services/cleanup.py ----
    files,       \* the files under the watch directory: id -> mtime, size, present
    cdirs,       \* the subdirectories of the watch directory that exist
    dmtime,      \* the modification times of the session folders, as ranks
    active,      \* history: the session folder that last received a frame
    kpc,         \* where the run_cleanup call stands
    kloc,        \* locals of run_cleanup / delete_oldest_files
    kres,        \* the (success, message) the last run_cleanup call returned
    kbefore,     \* history: the files present when the current / last call began
    kfailed,     \* history: the files whose os.remove raised in that call
    zpc,         \* where a get_directory_size call stands in its walk
    zloc,        \* locals of get_directory_size
    zres,        \* the total the last get_directory_size call returned
    zstart,      \* history: the files present when that call began
    \* ---- services/ml_service.py ----
    svc,         \* the MLService singleton: classifiers, cached errors, flag
    last_results,\* self._last_results
    mret,        \* how the last analyze_image call ended, and its result
    mcall,       \* history: the arguments and the service at that call
    minit,       \* history: what the last initialize call did and returned
    mnew,        \* history: MLService() was called since the last initialize
    mgot,        \* the dict the last get_last_results call returned
    \* ---- gui/settings_tab.py and the output distributor ----
    output_mode_var, \* app.output_mode_var: the mode the selector shows
    opc,         \* where on_output_mode_change stands
    sink,        \* the sink frames are routed to
    web_running, \* the HTTP server of the Webserver sink holds its port
    routed       \* history: where the last frame went, and the sink then

wvars == <<writer, fs, dirs, wpc, ml, content, ret, now, skipped, rmFailed,
           lastOk, winst, wcall>>

pvars == <<tpc, tdoc, thandle, tret, twrote>>

rvars == <<running, process, procs, frame_size, last_frame, threads, cpc, upc,
           uloc, nframes, sOld, rconf, sret, stored>>

kvars == <<files, cdirs, dmtime, active, kpc, kloc, kres, kbefore, kfailed>>

zvars == <<zpc, zloc, zres, zstart>>

mvars == <<svc, last_results, mret, mcall, minit, mnew, mgot>>

ovars == <<output_mode_var, opc, sink, web_running, routed>>

vars == <<wvars, pvars, rvars, kvars, zvars, mvars, ovars>>

\* what each service leaves alone
notSafety == <<pvars, rvars, kvars, zvars, mvars, ovars>>
notBridge == <<wvars, pvars, kvars, zvars, mvars>>
notRTSP == <<notBridge, ovars>>
notCleanup == <<wvars, pvars, rvars, zvars, mvars, ovars>>
notWalk == <<wvars, pvars, rvars, mvars, ovars, cdirs, dmtime, active, kpc, kloc, kres, kbefore,
             kfailed>>
notML == <<wvars, pvars, rvars, kvars, zvars, ovars>>

None == -1          \* Python's None for an optional number

(***************************************************************************)
(*                     services/ascom_safety.py                            *)
(***************************************************************************)

MaxClock == 1       \* datetime.now() takes the values 0..MaxClock

\* A line of the document. k: which line; p, v: its text parts; n: its number.
Line(k, p, v, n) == [k |-> k, p |-> p, v |-> v, n |-> n]

NoFile == [exists |-> FALSE, lines |-> <<>>]
File(ls) == [exists |-> TRUE, lines |-> ls]

\* The configurations the writer is constructed from (config.get defaults for
\* preamble and triggers; file_path as a sequence of path components, <<>> = '').
FilePaths == {<<>>, <<"out", "safety.txt">>, <<"alt.txt">>}
Configs ==
    [file_path : FilePaths,
     preamble : {"Roof Status:"},
     open_trigger : {"OPEN"},
     closed_trigger : {"CLOSED"},
     include_confidence : BOOLEAN,
     include_sky_condition : BOOLEAN,
     min_confidence : {700}]

\* ASCOMSafetyWriter.__init__
NewWriter(config) ==
    [file_path |-> config.file_path,
     preamble |-> config.preamble,
     open_trigger |-> config.open_trigger,
     closed_trigger |-> config.closed_trigger,
     include_confidence |-> config.include_confidence,
     include_sky_condition |-> config.include_sky_condition,
     min_confidence |-> config.min_confidence,
     last_write_time |-> None,
     last_status |-> Line("none", "", "", 0)]

\* The ml_results dicts write_status is called with; confidences in 1/1000
\* (analyze_image rounds them to 3 decimals), None when absent.
MLResults ==
    {[roof_status |-> r, roof_confidence |-> c, sky_condition |-> s[1],
      sky_confidence |-> s[2]] :
        r \in {"Open", "Closed", "N/A"}, c \in {None, 500, 920},
        s \in {<<"N/A", None>>, <<"Clear", 800>>}}

NoCall == [roof_status |-> "none", roof_confidence |-> None,
           sky_condition |-> "N/A", sky_confidence |-> None]

\* is_configured: bool(self.file_path)
is_configured(w) == w.file_path # <<>>

\* (variant: the content written in place, no temp sibling)
TempPathInPlace(w) == w.file_path
\* temp_path = self.file_path + '.tmp'
TempPath(w) == [w.file_path EXCEPT ![Len(w.file_path)] = @ \o ".tmp"]

\* os.path.dirname(self.file_path)
Dirname(path) == SubSeq(path, 1, Len(path) - 1)

AllPaths == FilePaths \cup {[q EXCEPT ![Len(q)] = @ \o ".tmp"] : q \in FilePaths \ {<<>>}}

\* f"{x:.0%}" of x = c/1000: the percentage rounded to an integer (half to even)
FormatPercent(c) ==
    LET q == c \div 10
        r == c % 10
    IN IF r > 5 \/ (r = 5 /\ q % 2 = 1) THEN q + 1 ELSE q

\* the two early returns of write_status after the is_configured check
SkipWriteNoUnknown(w, m) ==
    m.roof_confidence # None /\ m.roof_confidence < w.min_confidence
SkipWrite(w, m) ==
    \/ m.roof_status = "N/A"
    \/ (m.roof_confidence # None /\ m.roof_confidence < w.min_confidence)

\* trigger = self.open_trigger if roof_status == 'Open' else self.closed_trigger
TriggerAlwaysOpen(w, m) == w.open_trigger
TriggerFor(w, m) ==
    IF m.roof_status = "Open" THEN w.open_trigger ELSE w.closed_trigger

\* (variant: the sky line is appended before the confidence line)
BuildContentSkyFirst(w, m, t) ==
    <<Line("first", w.preamble, TriggerFor(w, m), 0)>>
    \o (IF w.include_sky_condition /\ m.sky_condition # "N/A"
        THEN <<Line("sky", "Sky Condition:", m.sky_condition,
                    IF m.sky_confidence # None
                    THEN FormatPercent(m.sky_confidence) ELSE None)>>
        ELSE <<>>)
    \o (IF w.include_confidence /\ m.roof_confidence # None
        THEN <<Line("conf", "Confidence:", "", FormatPercent(m.roof_confidence))>>
        ELSE <<>>)
    \o <<Line("updated", "Updated:", "", t)>>
\* the lines of `content`, in order
BuildContent(w, m, t) ==
    <<Line("first", w.preamble, TriggerFor(w, m), 0)>>
    \o (IF w.include_confidence /\ m.roof_confidence # None
        THEN <<Line("conf", "Confidence:", "", FormatPercent(m.roof_confidence))>>
        ELSE <<>>)
    \o (IF w.include_sky_condition /\ m.sky_condition # "N/A"
        THEN <<Line("sky", "Sky Condition:", m.sky_condition,
                    IF m.sky_confidence # None
                    THEN FormatPercent(m.sky_confidence) ELSE None)>>
        ELSE <<>>)
    \o <<Line("updated", "Updated:", "", t)>>

\* the config dicts write_ascom_safety_file is called with
FacadeConfigs ==
    [enabled : BOOLEAN, file_path : FilePaths, preamble : {"Roof Status:"},
     open_trigger : {"OPEN"}, closed_trigger : {"CLOSED"},
     include_confidence : {FALSE}, include_sky_condition : {FALSE},
     min_confidence : {700}]

\* the two threads that call write_status on writers of one file_path
Callers == {1, 2}

NoFacadeCall ==
    [called |-> FALSE, enabled |-> FALSE, file_path |-> <<>>, made |-> FALSE]

InitWriter ==
    /\ fs = [q \in AllPaths |-> NoFile]
    /\ dirs = {<<>>}
    /\ wpc = "idle"
    /\ ml = NoCall
    /\ content = <<>>
    /\ ret = "none"
    /\ now = 0
    /\ skipped = FALSE
    /\ rmFailed = FALSE
    /\ lastOk = "none"
    /\ winst = FALSE
    /\ wcall = NoFacadeCall
    /\ tpc = [t \in Callers |-> "idle"]
    /\ tdoc = [t \in Callers |-> <<>>]
    /\ thandle = [t \in Callers |-> "none"]
    /\ tret = [t \in Callers |-> "none"]
    /\ twrote = {}

\* time passes between and during calls
Tick ==
    /\ UNCHANGED notSafety
    /\ now < MaxClock
    /\ now' = now + 1
    /\ UNCHANGED <<writer, fs, dirs, wpc, ml, content, ret, skipped, rmFailed,
                   lastOk, winst, wcall>>

\* write_status of the writer w, up to the call of _atomic_write
WriteStatus(w, m) ==
    /\ wpc = "idle"
    /\ rmFailed' = FALSE
    /\ IF ~is_configured(w) \/ SkipWrite(w, m)
       THEN /\ ret' = "False"
            /\ skipped' = TRUE
            /\ UNCHANGED <<wpc, ml, content>>
       ELSE /\ ml' = m
            /\ content' = BuildContent(w, m, now)
            /\ skipped' = FALSE
            /\ ret' = "none"
            /\ wpc' = "ensure_dir"
    /\ UNCHANGED <<fs, dirs, now, lastOk>>

\* write_status, up to the call of _atomic_write
write_status(m) ==
    /\ UNCHANGED notSafety
    /\ WriteStatus(writer, m)
    /\ UNCHANGED <<writer, winst, wcall>>

\* (variant: every call constructs a writer)
InstanceAlwaysNew(exists, w, config) == TRUE
\* '_writer_instance is None or _writer_instance.file_path != config.get(...)'
InstanceReplaced(exists, w, config) == ~exists \/ w.file_path # config.file_path

\* write_ascom_safety_file: the enabled check, the instance, and write_status
\* on it up to the call of _atomic_write
write_ascom_safety_file(m, config) ==
    /\ UNCHANGED notSafety
    /\ wpc = "idle"
    /\ IF ~config.enabled
       THEN /\ ret' = "False"
            /\ wcall' = [called |-> TRUE, enabled |-> FALSE,
                         file_path |-> config.file_path, made |-> FALSE]
            /\ UNCHANGED <<writer, winst, fs, dirs, wpc, ml, content, now, skipped,
                           rmFailed, lastOk>>
       ELSE LET made == InstanceReplaced(winst, writer, config)
                instance == IF made THEN NewWriter(config) ELSE writer
            IN /\ writer' = instance
               /\ winst' = TRUE
               /\ wcall' = [called |-> TRUE, enabled |-> TRUE,
                            file_path |-> config.file_path, made |-> made]
               /\ WriteStatus(instance, m)

\* _atomic_write: the directory check and os.makedirs (OSError -> return False)
atomic_write_ensure_dir ==
    /\ UNCHANGED notSafety
    /\ wpc = "ensure_dir"
    /\ LET dir_path == Dirname(writer.file_path) IN
       IF dir_path # <<>> /\ dir_path \notin dirs
       THEN \/ /\ dirs' = dirs \cup {dir_path}
               /\ wpc' = "open"
               /\ UNCHANGED ret
               /\ UNCHANGED <<ml, content>>
            \/ /\ wpc' = "idle"
               /\ ret' = "False"
               /\ ml' = NoCall
               /\ content' = <<>>
               /\ UNCHANGED dirs
       ELSE /\ wpc' = "open"
            /\ UNCHANGED <<dirs, ret, ml, content>>
    /\ UNCHANGED <<writer, fs, now, skipped, rmFailed, lastOk, winst, wcall>>

\* open(temp_path, 'w'): creates or truncates the temp file, or raises
atomic_write_open ==
    /\ UNCHANGED notSafety
    /\ wpc = "open"
    /\ \/ /\ fs' = [fs EXCEPT ![TempPath(writer)] = File(<<>>)]
          /\ wpc' = "write"
       \/ /\ wpc' = "cleanup"
          /\ UNCHANGED fs
    /\ UNCHANGED <<writer, dirs, ml, content, ret, now, skipped, rmFailed, lastOk,
                   winst, wcall>>

\* f.write(content) and the close of the with block: the content reaches the
\* temp file piece by piece, and any piece may raise
atomic_write_write ==
    /\ UNCHANGED notSafety
    /\ wpc = "write"
    /\ LET tmp == TempPath(writer)
           k == Len(fs[tmp].lines)
       IN \/ /\ k < Len(content)
             /\ fs' = [fs EXCEPT ![tmp] = File(SubSeq(content, 1, k + 1))]
             /\ wpc' = IF k + 1 = Len(content) THEN "replace" ELSE "write"
          \/ /\ wpc' = "cleanup"
             /\ UNCHANGED fs
    /\ UNCHANGED <<writer, dirs, ml, content, ret, now, skipped, rmFailed, lastOk,
                   winst, wcall>>

\* os.replace(temp_path, self.file_path), the bookkeeping and return True;
\* or os.replace raises
atomic_write_replace ==
    /\ UNCHANGED notSafety
    /\ wpc = "replace"
    /\ LET tmp == TempPath(writer) IN
       \/ /\ fs' = IF tmp = writer.file_path THEN fs
                   ELSE [fs EXCEPT ![writer.file_path] = fs[tmp], ![tmp] = NoFile]
          /\ writer' = [writer EXCEPT !.last_write_time = now,
                                      !.last_status = content[1]]
          /\ lastOk' = ml.roof_status
          /\ ret' = "True"
          /\ wpc' = "idle"
          /\ ml' = NoCall
          /\ content' = <<>>
       \/ /\ wpc' = "cleanup"
          /\ UNCHANGED <<fs, writer, lastOk, ret, ml, content>>
    /\ UNCHANGED <<dirs, now, skipped, rmFailed, winst, wcall>>

\* (variant: the except block without the os.remove)
atomic_write_cleanup_NoRemove ==
    /\ UNCHANGED notSafety
    /\ wpc = "cleanup"
    /\ ret' = "False"
    /\ wpc' = "idle"
    /\ ml' = NoCall
    /\ content' = <<>>
    /\ UNCHANGED <<writer, fs, dirs, now, skipped, rmFailed, lastOk, winst,
                   wcall>>
\* the except block of _atomic_write (os.remove of the temp file, its OSError
\* swallowed), the re-raise, and write_status turning it into return False
atomic_write_cleanup ==
    /\ UNCHANGED notSafety
    /\ wpc = "cleanup"
    /\ LET tmp == TempPath(writer) IN
       IF fs[tmp].exists
       THEN \/ /\ fs' = [fs EXCEPT ![tmp] = NoFile]
               /\ UNCHANGED rmFailed
            \/ /\ rmFailed' = TRUE
               /\ UNCHANGED fs
       ELSE UNCHANGED <<fs, rmFailed>>
    /\ ret' = "False"
    /\ wpc' = "idle"
    /\ ml' = NoCall
    /\ content' = <<>>
    /\ UNCHANGED <<writer, dirs, now, skipped, lastOk, winst, wcall>>

\* ---- write_status from two threads ----
\* Each of the two callers runs write_status and _atomic_write with its own
\* locals on the one file system. A file opened by open(temp_path, 'w') is
\* followed through renames: thandle is "tmp" while it is the file at
\* temp_path, "target" once an os.replace has moved it to file_path, "gone"
\* once it has no name left.

notPair == <<rvars, kvars, zvars, mvars, ovars>>

\* the writes the two callers make: none is skipped, and the documents have
\* two or three lines
PairResults ==
    {m \in MLResults : /\ m.roof_status # "N/A" /\ m.sky_condition = "N/A"
                       /\ m.roof_confidence \in {None, 920}}

\* bytes written at offset 0 of a file that holds `old`: they replace its
\* start, and what lies beyond them stays
Overlay(new, old) == new \o SubSeq(old, Len(new) + 1, Len(old))

\* where the open files are after os.replace(temp_path, file_path)
AfterReplace(h) ==
    [t \in Callers |-> IF h[t] = "tmp" THEN "target"
                       ELSE IF h[t] = "target" THEN "gone" ELSE h[t]]

\* where the open files are after os.remove(temp_path)
AfterRemove(h) == [t \in Callers |-> IF h[t] = "tmp" THEN "gone" ELSE h[t]]

\* write_status of caller t, up to the call of _atomic_write
thread_write_status(t, m) ==
    /\ tpc[t] = "idle"
    /\ IF ~is_configured(writer) \/ SkipWrite(writer, m)
       THEN /\ tret' = [tret EXCEPT ![t] = "False"]
            /\ UNCHANGED <<tpc, tdoc, twrote>>
       ELSE /\ tdoc' = [tdoc EXCEPT ![t] = BuildContent(writer, m, now)]
            /\ twrote' = twrote \cup {BuildContent(writer, m, now)}
            /\ tret' = [tret EXCEPT ![t] = "none"]
            /\ tpc' = [tpc EXCEPT ![t] = "ensure_dir"]
    /\ UNCHANGED <<thandle, fs, dirs>>
    /\ UNCHANGED <<writer, wpc, ml, content, ret, now, skipped, rmFailed,
                   lastOk, winst, wcall>>
    /\ UNCHANGED notPair

\* _atomic_write of caller t: the directory check and os.makedirs
thread_ensure_dir(t) ==
    /\ tpc[t] = "ensure_dir"
    /\ LET dir_path == Dirname(writer.file_path) IN
       IF dir_path # <<>> /\ dir_path \notin dirs
       THEN \/ /\ dirs' = dirs \cup {dir_path}
               /\ tpc' = [tpc EXCEPT ![t] = "open"]
               /\ UNCHANGED <<tret, tdoc>>
            \/ /\ tpc' = [tpc EXCEPT ![t] = "idle"]
               /\ tret' = [tret EXCEPT ![t] = "False"]
               /\ tdoc' = [tdoc EXCEPT ![t] = <<>>]
               /\ UNCHANGED dirs
       ELSE /\ tpc' = [tpc EXCEPT ![t] = "open"]
            /\ UNCHANGED <<dirs, tret, tdoc>>
    /\ UNCHANGED <<thandle, twrote, fs>>
    /\ UNCHANGED <<writer, wpc, ml, content, ret, now, skipped, rmFailed,
                   lastOk, winst, wcall>>
    /\ UNCHANGED notPair

\* open(temp_path, 'w') of caller t: the file at temp_path is created, or the
\* one that is there is truncated, whoever else has it open; or open raises
thread_open(t) ==
    /\ tpc[t] = "open"
    /\ \/ /\ fs' = [fs EXCEPT ![TempPath(writer)] = File(<<>>)]
          /\ thandle' = [thandle EXCEPT ![t] = "tmp"]
          /\ tpc' = [tpc EXCEPT ![t] = "write"]
       \/ /\ tpc' = [tpc EXCEPT ![t] = "cleanup"]
          /\ UNCHANGED <<fs, thandle>>
    /\ UNCHANGED <<tdoc, tret, twrote, dirs>>
    /\ UNCHANGED <<writer, wpc, ml, content, ret, now, skipped, rmFailed,
                   lastOk, winst, wcall>>
    /\ UNCHANGED notPair

\* f.write(content) and the close of the with block of caller t: the buffered
\* content is written at the start of the file t has open, wherever that file
\* is by now; or the write raises
thread_write(t) ==
    /\ tpc[t] = "write"
    /\ \/ /\ LET q == IF thandle[t] = "tmp" THEN TempPath(writer)
                      ELSE writer.file_path
             IN fs' = IF thandle[t] = "gone" THEN fs
                      ELSE [fs EXCEPT ![q] = File(Overlay(tdoc[t], fs[q].lines))]
          /\ tpc' = [tpc EXCEPT ![t] = "replace"]
       \/ /\ tpc' = [tpc EXCEPT ![t] = "cleanup"]
          /\ UNCHANGED fs
    /\ thandle' = [thandle EXCEPT ![t] = "none"]
    /\ UNCHANGED <<tdoc, tret, twrote, dirs>>
    /\ UNCHANGED <<writer, wpc, ml, content, ret, now, skipped, rmFailed,
                   lastOk, winst, wcall>>
    /\ UNCHANGED notPair

\* os.replace(temp_path, self.file_path) of caller t and return True; it
\* raises FileNotFoundError when no file is at temp_path, and may raise
\* otherwise
thread_replace(t) ==
    /\ tpc[t] = "replace"
    /\ LET tmp == TempPath(writer) IN
       \/ /\ fs[tmp].exists
          /\ fs' = [fs EXCEPT ![writer.file_path] = fs[tmp], ![tmp] = NoFile]
          /\ thandle' = AfterReplace(thandle)
          /\ tret' = [tret EXCEPT ![t] = "True"]
          /\ tpc' = [tpc EXCEPT ![t] = "idle"]
          /\ tdoc' = [tdoc EXCEPT ![t] = <<>>]
       \/ /\ tpc' = [tpc EXCEPT ![t] = "cleanup"]
          /\ UNCHANGED <<fs, thandle, tret, tdoc>>
    /\ UNCHANGED <<twrote, dirs>>
    /\ UNCHANGED <<writer, wpc, ml, content, ret, now, skipped, rmFailed,
                   lastOk, winst, wcall>>
    /\ UNCHANGED notPair

\* the except block of _atomic_write of caller t: os.remove of whatever file
\* is at temp_path (its OSError swallowed), the re-raise, return False
thread_cleanup(t) ==
    /\ tpc[t] = "cleanup"
    /\ LET tmp == TempPath(writer) IN
       IF fs[tmp].exists
       THEN \/ /\ fs' = [fs EXCEPT ![tmp] = NoFile]
               /\ thandle' = AfterRemove(thandle)
            \/ UNCHANGED <<fs, thandle>>
       ELSE UNCHANGED <<fs, thandle>>
    /\ tret' = [tret EXCEPT ![t] = "False"]
    /\ tpc' = [tpc EXCEPT ![t] = "idle"]
    /\ tdoc' = [tdoc EXCEPT ![t] = <<>>]
    /\ UNCHANGED <<twrote, dirs>>
    /\ UNCHANGED <<writer, wpc, ml, content, ret, now, skipped, rmFailed,
                   lastOk, winst, wcall>>
    /\ UNCHANGED notPair

(***************************************************************************)
(*                      services/rtsp_output.py                            *)
(***************************************************************************)

MaxProcs == 3       \* subprocess.Popen succeeds at most MaxProcs times
MaxThreads == 2     \* start() succeeds at most MaxThreads times
MaxFrames == 2      \* update_image is called at most MaxFrames times

\* the placeholder frame size of start()
PlaceholderSize == <<1920, 1080>>
\* the (width, height) of the images update_image is called with
ImageSizes == {<<1920, 1080>>, <<640, 480>>}
NoSize == <<0, 0>>                           \* frame_size = None
NoFrame == [size |-> NoSize, n |-> 0]        \* last_frame = None

\* a frame's bytes: img_bgr.tobytes() of the n-th image, of the given size
Frame(size, n) == [size |-> size, n |-> n]

\* the (host, port, stream_name) a server is constructed with
DefaultRTSPConfig == [host |-> "0.0.0.0", port |-> 8554, stream_name |-> "asiwatchdog"]
RTSPConfigs ==
    {DefaultRTSPConfig, [host |-> "127.0.0.1", port |-> 554, stream_name |-> "sky"]}

\* f'rtsp://{self.host}:{self.port}/{self.stream_name}'
Url(conf) ==
    "rtsp://" \o conf.host \o ":" \o ToString(conf.port) \o "/" \o conf.stream_name

\* (variant: the command publishes to the stream path alone)
CommandUrlNoHost == "rtsp:///" \o rconf.stream_name
\* the last element of the command of _build_ffmpeg_command
CommandUrl == Url(rconf)

\* a subprocess: the -video_size and the url it was started with, whether it
\* still runs, whether its stdin pipe is still open on our side
Proc(size) ==
    [size |-> size, alive |-> TRUE, stdin_open |-> TRUE, url |-> CommandUrl]

\* the locals of update_image / _restart_ffmpeg, kept after the call returns;
\* need, old, spawned, timed_out are history of the call
NoLocals == [new_size |-> NoSize, was_running |-> FALSE, old |-> 0,
             need |-> FALSE, spawned |-> 0, timed_out |-> FALSE]

\* Popen.poll() is None
Alive(p) == p # 0 /\ procs[p].alive

\* Popen.terminate() then Popen.wait(timeout): the subprocess exits, or it
\* ignores the graceful request and is still running when the wait times out
Terminated(ps, p) ==
    IF p = 0 THEN {ps} ELSE {ps, [ps EXCEPT ![p].alive = FALSE]}
\* Popen.kill() then Popen.wait()
Killed(ps, p) ==
    IF p # 0 THEN [ps EXCEPT ![p].alive = FALSE] ELSE ps

\* get_url()
get_url == IF running THEN Url(rconf) ELSE "None"

\* what _check_ffmpeg finds: the binary runs, is not there, or exits non-zero
FfmpegStates == {"ok", "missing", "unusable"}

NoStart == [why |-> "none", ffmpeg |-> "ok"]

\* (variant: start() goes on whatever _check_ffmpeg returned)
CheckFfmpegIgnored(ffmpeg) == TRUE
\* _check_ffmpeg(): result.returncode == 0, False on any exception
check_ffmpeg(ffmpeg) == ffmpeg = "ok"

InitRTSP ==
    /\ running = FALSE
    /\ process = 0
    /\ procs = <<>>
    /\ frame_size = NoSize
    /\ last_frame = NoFrame
    /\ threads = <<>>
    /\ cpc = "idle"
    /\ upc = "idle"
    /\ uloc = NoLocals
    /\ nframes = 0
    /\ sOld = 0
    /\ rconf = DefaultRTSPConfig
    /\ sret = NoStart
    /\ stored = {}

\* start(): the running check and _check_ffmpeg, then the placeholder size
StartCheck(ffmpeg) ==
    /\ cpc = "idle"
    /\ Len(threads) < MaxThreads
    /\ IF running
       THEN /\ sret' = [why |-> "already_running", ffmpeg |-> ffmpeg]
            /\ UNCHANGED <<frame_size, cpc>>               \* return False
       ELSE IF ~check_ffmpeg(ffmpeg)
       THEN /\ sret' = [why |-> "no_ffmpeg", ffmpeg |-> ffmpeg]
            /\ UNCHANGED <<frame_size, cpc>>               \* return False
       ELSE /\ sret' = [why |-> "starting", ffmpeg |-> ffmpeg]
            /\ frame_size' = PlaceholderSize
            /\ cpc' = "start_spawn"
    /\ UNCHANGED <<running, process, procs, last_frame, threads, upc, uloc,
                   nframes, sOld, rconf, stored>>

\* start() called on the bridge alone
start_check(ffmpeg) == StartCheck(ffmpeg) /\ UNCHANGED notRTSP

\* start(): _build_ffmpeg_command and subprocess.Popen, then self.running =
\* True, the start of the frame sender thread and return True; Popen raises
\* when the binary is missing, and may raise otherwise: return False
start_spawn ==
    /\ cpc = "start_spawn"
    /\ \/ /\ Len(procs) < MaxProcs
          /\ sret.ffmpeg # "missing"
          /\ procs' = Append(procs, Proc(frame_size))
          /\ process' = Len(procs) + 1
          /\ running' = TRUE
          /\ threads' = Append(threads, [pc |-> "tick", frame_bytes |-> NoFrame,
                                         why |-> "none"])
          /\ sret' = [sret EXCEPT !.why = "started"]
       \/ /\ sret' = [sret EXCEPT !.why = "popen_failed"]
          /\ UNCHANGED <<procs, process, running, threads>>
    /\ cpc' = "idle"
    /\ UNCHANGED <<frame_size, last_frame, upc, uloc, nframes, sOld, rconf, stored>>
    /\ UNCHANGED notRTSP

\* (variant: the cell is read without the lock while a store is under way,
\* and gives bytes of the old frame and of the new one)
CellReadTorn ==
    IF upc = "store" THEN [size |-> last_frame.size, n |-> nframes] ELSE last_frame
\* 'with self.frame_lock: frame_bytes = self.last_frame'
CellRead == last_frame

\* _frame_sender_loop: the while condition and the read of the current-frame
\* cell under the lock (with no frame yet: sleep and test the condition again)
pump_tick(t) ==
    /\ threads[t].pc = "tick"
    /\ IF running /\ Alive(process)
       THEN /\ last_frame # NoFrame
            /\ threads' = [threads EXCEPT ![t].pc = "write",
                                          ![t].frame_bytes = CellRead]
       ELSE threads' = [threads EXCEPT ![t].pc = "exited",
                           ![t].why = IF running THEN "process_exit" ELSE "stopped"]
    /\ UNCHANGED <<running, process, procs, frame_size, last_frame, cpc, upc,
                   uloc, nframes, sOld, rconf, sret, stored>>
    /\ UNCHANGED notRTSP

\* the write of pump_write reaches the subprocess
Accepts(p) == Alive(p) /\ procs[p].stdin_open

\* _frame_sender_loop: self.process.stdin.write / flush, then the sleep.
\* A live subprocess with an open stdin takes the frame; a closed stdin raises
\* ValueError (logged, the loop goes on); a dead subprocess raises
\* BrokenPipeError (break) or another OSError (logged, the loop goes on).
pump_write(t) ==
    /\ threads[t].pc = "write"
    /\ \/ /\ Alive(process)
          /\ threads' = [threads EXCEPT ![t].pc = "tick",
                                        ![t].frame_bytes = NoFrame]
       \/ /\ ~Alive(process)
          /\ threads' = [threads EXCEPT ![t].pc = "tick",
                                        ![t].frame_bytes = NoFrame]
       \/ /\ ~Alive(process)
          /\ threads' = [threads EXCEPT ![t].pc = "exited",
                                        ![t].frame_bytes = NoFrame,
                                        ![t].why = "broken_pipe"]
    /\ UNCHANGED <<running, process, procs, frame_size, last_frame, cpc, upc,
                   uloc, nframes, sOld, rconf, sret, stored>>
    /\ UNCHANGED notRTSP

\* (variant: stop() without its running check)
StopBeginUnguarded ==
    /\ cpc = "idle"
    /\ running' = FALSE
    /\ sOld' = process
    /\ cpc' = "stop_close"
    /\ UNCHANGED <<process, procs, frame_size, last_frame, threads, upc, uloc,
                   nframes, rconf, sret, stored>>
\* stop(): the running check, self.running = False and
\* frame_thread.join(timeout=2.0), which returns with the thread over or not
StopBegin ==
    /\ cpc = "idle"
    /\ IF running
       THEN /\ running' = FALSE
            /\ sOld' = process
            /\ cpc' = "stop_close"
       ELSE UNCHANGED <<running, sOld, cpc>>
    /\ UNCHANGED <<process, procs, frame_size, last_frame, threads, upc, uloc,
                   nframes, rconf, sret, stored>>

\* stop() called on the bridge alone
stop_begin == StopBegin /\ UNCHANGED notRTSP

\* stop(): self.process.stdin.close()
stop_close ==
    /\ cpc = "stop_close"
    /\ procs' = IF process # 0 THEN [procs EXCEPT ![process].stdin_open = FALSE]
                ELSE procs
    /\ cpc' = "stop_terminate"
    /\ UNCHANGED <<running, process, frame_size, last_frame, threads, upc, uloc,
                   nframes, sOld, rconf, sret, stored>>
    /\ UNCHANGED notRTSP

\* stop(): self.process.terminate() and self.process.wait(timeout=5)
stop_terminate ==
    /\ cpc = "stop_terminate"
    /\ procs' \in Terminated(procs, process)
    /\ cpc' = IF process # 0 /\ procs'[process].alive THEN "stop_kill" ELSE "idle"
    /\ UNCHANGED <<running, process, frame_size, last_frame, threads, upc, uloc,
                   nframes, sOld, rconf, sret, stored>>
    /\ UNCHANGED notRTSP

\* stop(): on TimeoutExpired self.process.kill() and self.process.wait()
stop_kill ==
    /\ cpc = "stop_kill"
    /\ procs' = Killed(procs, process)
    /\ cpc' = "idle"
    /\ UNCHANGED <<running, process, frame_size, last_frame, threads, upc, uloc,
                   nframes, sOld, rconf, sret, stored>>
    /\ UNCHANGED notRTSP

\* update_image(): the running check, new_size != self.frame_size and
\* self.frame_size = new_size
UpdateImage(size) ==
    /\ upc = "idle"
    /\ nframes < MaxFrames
    /\ nframes' = nframes + 1
    /\ IF ~running
       THEN UNCHANGED <<upc, uloc, frame_size>>            \* ignored
       ELSE /\ uloc' = [NoLocals EXCEPT !.new_size = size,
                          !.need = (process # 0 /\ procs[process].size # size)]
            /\ IF size # frame_size
               THEN /\ frame_size' = size
                    /\ upc' = "restart_stop"
               ELSE /\ UNCHANGED frame_size
                    /\ upc' = "store"
    /\ UNCHANGED <<running, process, procs, last_frame, threads, cpc, sOld,
                   rconf, sret, stored>>

\* update_image() called on the bridge alone
update_image(size) == UpdateImage(size) /\ UNCHANGED notRTSP

\* _restart_ffmpeg(): was_running = self.running; self.process.terminate();
\* self.process.wait(timeout=2), whose TimeoutExpired is caught by the except
\* of _restart_ffmpeg: it logs and returns, without a kill and without a respawn
restart_stop ==
    /\ upc = "restart_stop"
    /\ procs' \in Terminated(procs, process)
    /\ IF process # 0 /\ procs'[process].alive
       THEN /\ upc' = "store"
            /\ uloc' = [uloc EXCEPT !.was_running = running, !.old = process,
                                    !.timed_out = TRUE]
       ELSE /\ upc' = IF running THEN "restart_spawn" ELSE "store"
            /\ uloc' = [uloc EXCEPT !.was_running = running, !.old = process]
    /\ UNCHANGED <<running, process, frame_size, last_frame, threads, cpc,
                   nframes, sOld, rconf, sret, stored>>
    /\ UNCHANGED notRTSP

\* _restart_ffmpeg(): _build_ffmpeg_command and subprocess.Popen; an exception
\* is caught by the except of _restart_ffmpeg, which logs it and returns
restart_spawn ==
    /\ upc = "restart_spawn"
    /\ \/ /\ Len(procs) < MaxProcs
          /\ procs' = Append(procs, Proc(frame_size))
          /\ process' = Len(procs) + 1
          /\ uloc' = [uloc EXCEPT !.spawned = @ + 1]
       \/ UNCHANGED <<procs, process, uloc>>
    /\ upc' = "store"
    /\ UNCHANGED <<running, frame_size, last_frame, threads, cpc, nframes, sOld, rconf, sret, stored>>
    /\ UNCHANGED notRTSP

\* update_image(): self.last_frame = img_bgr.tobytes() under the lock; return
update_store ==
    /\ upc = "store"
    /\ last_frame' = Frame(uloc.new_size, nframes)
    /\ stored' = stored \cup {Frame(uloc.new_size, nframes)}
    /\ upc' = "idle"
    /\ UNCHANGED <<running, process, procs, frame_size, threads, cpc, uloc,
                   nframes, sOld, rconf, sret>>
    /\ UNCHANGED notRTSP

\* the encoder subprocess exits by itself (an encoder error, a lost client)
process_exit ==
    /\ Alive(process)
    /\ procs' = [procs EXCEPT ![process].alive = FALSE]
    /\ UNCHANGED <<running, process, frame_size, last_frame, threads, cpc, upc,
                   uloc, nframes, sOld, rconf, sret, stored>>
    /\ UNCHANGED notRTSP

(***************************************************************************)
(*         gui/settings_tab.py and the output distributor                  *)
(***************************************************************************)

\* the modes of create_output_mode_selector
OutputModes == {"file", "webserver", "rtsp"}

NoRoute == [to |-> {}, sink |-> "file"]

\* 'app.output_mode_var = tk.StringVar(value='file')': the selector starts on
\* File, and frames go to the output directory
InitDistributor ==
    /\ output_mode_var = "file"
    /\ opc = "idle"
    /\ sink = "file"
    /\ web_running = FALSE
    /\ routed = NoRoute

\* a click on a Radiobutton of the selector: Tk sets the one variable the
\* three buttons share to the value of the button, then runs its command,
\* app.on_output_mode_change(); the handlers of the GUI run one at a time
select_mode(mode) ==
    /\ opc = "idle"
    /\ mode # output_mode_var
    /\ mode = "rtsp" => Len(threads) < MaxThreads /\ Len(procs) < MaxProcs
    /\ output_mode_var' = mode
    /\ opc' = "teardown"
    /\ UNCHANGED <<sink, web_running, routed>>
    /\ UNCHANGED rvars
    /\ UNCHANGED notBridge

\* on_output_mode_change: the sink in use stops its background resources, the
\* bridge by stop(), the Webserver sink by releasing its HTTP server
switch_teardown ==
    /\ opc = "teardown"
    /\ IF sink = "rtsp"
       THEN StopBegin /\ UNCHANGED web_running
       ELSE web_running' = FALSE /\ UNCHANGED rvars
    /\ opc' = "stopping"
    /\ UNCHANGED <<output_mode_var, sink, routed>>
    /\ UNCHANGED notBridge

\* on_output_mode_change: with the old sink stopped, the selected one becomes
\* the sink in use, the bridge by start(), the Webserver sink by its server
switch_activate(ffmpeg) ==
    /\ opc = "stopping"
    /\ cpc = "idle"
    /\ sink' = output_mode_var
    /\ IF output_mode_var = "rtsp" THEN StartCheck(ffmpeg) ELSE UNCHANGED rvars
    /\ web_running' = (output_mode_var = "webserver")
    /\ opc' = "starting"
    /\ UNCHANGED <<output_mode_var, routed>>
    /\ UNCHANGED notBridge

\* on_output_mode_change returns once start() has
switch_done ==
    /\ opc = "starting"
    /\ cpc = "idle"
    /\ opc' = "idle"
    /\ UNCHANGED <<output_mode_var, sink, web_running, routed>>
    /\ UNCHANGED rvars
    /\ UNCHANGED notBridge

\* the frame producer hands a processed frame to the distributor, which gives
\* it to the sink in use: to the bridge by update_image, else to the file or
\* to the HTTP server
route_frame(size) ==
    /\ upc = "idle"
    /\ IF sink = "rtsp" THEN UpdateImage(size) ELSE UNCHANGED rvars
    /\ routed' = [to |-> {sink}, sink |-> sink]
    /\ UNCHANGED <<output_mode_var, opc, sink, web_running>>
    /\ UNCHANGED notBridge

(***************************************************************************)
(*                        services/cleanup.py                              *)
(***************************************************************************)

MaxFiles == 3       \* the watch directory starts with MaxFiles files
MaxMtime == 2       \* their modification times are 1..MaxMtime
MaxCapGB == 2       \* cleanup_max_size_gb is 0..MaxCapGB

\* Sizes are counted in units of 512 MiB: 1 GiB (1024 * 1024 * 1024 bytes) is
\* GiB units, and a file is half a GiB or one GiB big.
GiB == 2
FileSizes == {1, 2}

OldestFiles == "Delete oldest files in watch directory"
OldestSessions == "Delete oldest session folders"
Strategies == {OldestFiles, OldestSessions, "Delete everything"}

\* the subdirectories: two session folders, one of them with a subfolder
SubDirs == {"A", "A/x", "B"}
WatchDir == "watch"
Parent(d) == IF d = "A/x" THEN "A" ELSE WatchDir
\* the place of a directory in os.walk(directory), top down
WalkRank(d) ==
    CASE d = WatchDir -> 0 [] d = "A" -> 1 [] d = "A/x" -> 2 [] OTHER -> 3
\* the directory file i lies in
FileDir(i) ==
    CASE i % 4 = 1 -> "A" [] i % 4 = 2 -> "B" [] i % 4 = 3 -> WatchDir
      [] OTHER -> "A/x"

FileIds == 1..MaxFiles

\* the config dicts run_cleanup is called with
CleanupConfigs ==
    [cleanup_enabled : BOOLEAN,
     watch_directory : {"", "missing", WatchDir},
     cleanup_max_size_gb : (0..MaxCapGB) \cup {None},
     cleanup_strategy : Strategies]

\* a file that was removed
Gone == [mtime |-> 0, size |-> 0, present |-> FALSE]

Present(fl) == {i \in DOMAIN fl : fl[i].present}

RECURSIVE SumSizes(_, _)
SumSizes(fl, ids) ==
    IF ids = {} THEN 0
    ELSE LET i == CHOOSE x \in ids : TRUE
         IN fl[i].size + SumSizes(fl, ids \ {i})

\* get_directory_size(directory): the files os.walk finds, summed
get_directory_size(fl) == SumSizes(fl, Present(fl))

\* the order in which os.walk lists the files: directory by directory
RECURSIVE WalkOrder(_, _)
WalkOrder(fl, ids) ==
    IF ids = {} THEN <<>>
    ELSE LET i == CHOOSE x \in ids : \A y \in ids :
                     \/ WalkRank(FileDir(x)) < WalkRank(FileDir(y))
                     \/ (WalkRank(FileDir(x)) = WalkRank(FileDir(y)) /\ x <= y)
         IN <<i>> \o WalkOrder(fl, ids \ {i})

\* get_all_files_with_mtime(directory): (filepath, mtime, size) tuples
get_all_files_with_mtime(fl) ==
    LET order == WalkOrder(fl, Present(fl))
    IN [k \in 1..Len(order) |->
           [id |-> order[k], mtime |-> fl[order[k]].mtime, size |-> fl[order[k]].size]]

\* list.sort(key=lambda x: x[1]): a stable sort by mtime
RECURSIVE SortByMtime(_)
Insert(sorted, e) ==
    LET k == Cardinality({j \in 1..Len(sorted) : sorted[j].mtime <= e.mtime})
    IN SubSeq(sorted, 1, k) \o <<e>> \o SubSeq(sorted, k + 1, Len(sorted))
SortByMtime(list) ==
    IF list = <<>> THEN <<>>
    ELSE Insert(SortByMtime(SubSeq(list, 1, Len(list) - 1)), list[Len(list)])

\* the session folders: the immediate subdirectories, in os.listdir order
SessionFolders == <<"A", "B">>
\* file i lies in folder d or below it
Under(i, d) == FileDir(i) = d \/ Parent(FileDir(i)) = d

\* Of the folders' modification times the code reads only the order, so they
\* are kept as ranks: an entry created or removed in folder d makes d the
\* newest folder.
Touch(dm, d) == IF d \in DOMAIN dm THEN [x \in DOMAIN dm |-> IF x = d THEN 2 ELSE 1]
                ELSE dm

\* get_session_folders(directory): (folder_path, mtime, size) tuples
get_session_folders(fl, ds, dm) ==
    LET there == SelectSeq(SessionFolders, LAMBDA d : d \in ds)
    IN [k \in 1..Len(there) |->
           [path |-> there[k], mtime |-> dm[there[k]],
            size |-> SumSizes(fl, {i \in Present(fl) : Under(i, there[k])})]]

\* os.walk(folder_path), top down: the folder, then its subdirectories
WalkDirs(d, ds) == IF d = "A" /\ "A/x" \in ds THEN <<"A", "A/x">> ELSE <<d>>

\* (variant: the files of the watch directory itself are reported too)
ListDirWithRoot(fl, d) ==
    WalkOrder(fl, {i \in Present(fl) : FileDir(i) = d \/ FileDir(i) = WatchDir})
\* the filenames os.walk reports for directory d
ListDir(fl, d) == WalkOrder(fl, {i \in Present(fl) : FileDir(i) = d})

NoWalkLocals == [walk |-> <<>>, filenames |-> <<>>, idx |-> 1, total_size |-> 0]
NoCleanupLocals == [max_size_bytes |-> 0, strategy |-> "", list |-> <<>>, idx |-> 0,
                    current_size |-> 0, deleted_count |-> 0,
                    folders |-> <<>>, walk |-> <<>>, protected |-> ""]

InitCleanup ==
    /\ files \in [FileIds -> [mtime : 1..MaxMtime, size : FileSizes, present : {TRUE}]]
    /\ cdirs = SubDirs
    /\ dmtime = [d \in {"A", "B"} |-> IF d = "B" THEN 2 ELSE 1]
    /\ active = "B"
    /\ kpc = "idle"
    /\ kloc = NoCleanupLocals
    /\ kres = [ok |-> TRUE, message |-> "none", deleted |-> 0]
    /\ kbefore = {}
    /\ kfailed = {}
    /\ zpc = "idle"
    /\ zloc = NoWalkLocals
    /\ zres = 0
    /\ zstart = {}

\* (variant: the cleanup_enabled flag is not looked at)
RunBranchIgnoresEnabled(config, current_size) ==
    IF config.watch_directory # WatchDir THEN "Watch directory not valid"
    ELSE IF config.cleanup_max_size_gb = None THEN "Cleanup error"
    ELSE IF current_size <= config.cleanup_max_size_gb * GiB THEN "under limit"
    ELSE IF config.cleanup_strategy = OldestFiles THEN "files_scan"
    ELSE IF config.cleanup_strategy = OldestSessions THEN "sessions_scan"
    ELSE "Unknown cleanup strategy"
\* (variant: any other strategy name runs the default strategy)
RunBranchDefaultStrategy(config, current_size) ==
    IF ~config.cleanup_enabled THEN "Cleanup not enabled"
    ELSE IF config.watch_directory # WatchDir THEN "Watch directory not valid"
    ELSE IF config.cleanup_max_size_gb = None THEN "Cleanup error"
    ELSE IF current_size <= config.cleanup_max_size_gb * GiB THEN "under limit"
    ELSE IF config.cleanup_strategy = OldestSessions THEN "sessions_scan"
    ELSE "files_scan"
\* (variant: only an empty directory name is refused)
RunBranchNoExistsTest(config, current_size) ==
    IF ~config.cleanup_enabled THEN "Cleanup not enabled"
    ELSE IF config.watch_directory = "" THEN "Watch directory not valid"
    ELSE IF config.cleanup_max_size_gb = None THEN "Cleanup error"
    ELSE IF current_size <= config.cleanup_max_size_gb * GiB THEN "under limit"
    ELSE IF config.cleanup_strategy = OldestFiles THEN "files_scan"
    ELSE IF config.cleanup_strategy = OldestSessions THEN "sessions_scan"
    ELSE "Unknown cleanup strategy"
\* run_cleanup, lines 179-208: the branch a call takes, given the size
\* get_directory_size returned.  A cleanup_max_size_gb of None makes the
\* multiplication raise TypeError, which the except clause turns into a
\* failure result.
RunBranch(config, current_size) ==
    IF ~config.cleanup_enabled THEN "Cleanup not enabled"
    ELSE IF config.watch_directory # WatchDir THEN "Watch directory not valid"
    ELSE IF config.cleanup_max_size_gb = None THEN "Cleanup error"
    ELSE IF current_size <= config.cleanup_max_size_gb * GiB THEN "under limit"
    ELSE IF config.cleanup_strategy = OldestFiles THEN "files_scan"
    ELSE IF config.cleanup_strategy = OldestSessions THEN "sessions_scan"
    ELSE "Unknown cleanup strategy"

\* the success flag run_cleanup returns with a message
Success(message) == message \in {"Cleanup not enabled", "under limit"}

\* run_cleanup(config), up to the call of delete_oldest_files or
\* delete_oldest_sessions
run_cleanup(config) ==
    /\ kpc = "idle"
    /\ kfailed' = {}
    /\ LET branch == RunBranch(config, get_directory_size(files))
       IN IF branch \in {"files_scan", "sessions_scan"}
          THEN /\ kpc' = branch
               /\ kloc' = [NoCleanupLocals EXCEPT
                              !.max_size_bytes = config.cleanup_max_size_gb * GiB,
                              !.strategy = config.cleanup_strategy,
                              !.current_size = get_directory_size(files)]
               /\ kbefore' = Present(files)
               /\ UNCHANGED kres
          ELSE /\ kres' = [ok |-> Success(branch), message |-> branch, deleted |-> 0]
               /\ UNCHANGED <<kpc, kloc, kbefore>>
    /\ UNCHANGED <<files, cdirs, dmtime, active>>
    /\ UNCHANGED notCleanup

\* the return of delete_oldest_files / delete_oldest_sessions into
\* run_cleanup, which returns (True, "Deleted ...")
Return(deleted) ==
    /\ kres' = [ok |-> TRUE, message |-> "Deleted", deleted |-> deleted]
    /\ kpc' = "idle"
    /\ kloc' = NoCleanupLocals
    /\ kbefore' = {}
    /\ kfailed' = {}
    /\ UNCHANGED <<files, dmtime>>

\* os.remove(filepath) on file i, with the bookkeeping that follows it when it
\* succeeds; it raises when the file is gone, and may raise when it is there
Remove(i, size) ==
    \/ /\ files[i].present
       /\ files' = [files EXCEPT ![i] = Gone]
       /\ dmtime' = Touch(dmtime, FileDir(i))
       /\ kloc' = [kloc EXCEPT !.current_size = @ - size,
                               !.deleted_count = @ + 1, !.idx = @ + 1]
       /\ UNCHANGED kfailed
    \/ /\ kfailed' = kfailed \cup {i}
       /\ kloc' = [kloc EXCEPT !.idx = @ + 1]
       /\ UNCHANGED <<files, dmtime>>

\* (variant: the size run_cleanup computed is used again)
ScanSizeStale(fl, earlier) == earlier
\* current_size = get_directory_size(directory), the first statement of
\* delete_oldest_files and of delete_oldest_sessions
ScanSize(fl, earlier) == get_directory_size(fl)

\* (variant: the files are taken in the order of the walk)
ByMtimeUnsorted(list) == list
\* files.sort(key=lambda x: x[1]) / folders.sort(key=lambda x: x[1])
ByMtime(list) == SortByMtime(list)

\* delete_oldest_files: the size, the early return, the listing and the sort
delete_oldest_files_scan ==
    /\ kpc = "files_scan"
    /\ LET current_size == ScanSize(files, kloc.current_size) IN
       IF current_size <= kloc.max_size_bytes
       THEN Return(0)
       ELSE /\ kloc' = [kloc EXCEPT !.current_size = current_size,
                           !.list = ByMtime(get_all_files_with_mtime(files)),
                           !.idx = 1]
            /\ kpc' = "files_loop"
            /\ UNCHANGED <<files, dmtime, kres, kbefore, kfailed>>
    /\ UNCHANGED <<cdirs, active>>
    /\ UNCHANGED notCleanup

\* (variant: the running total is lowered although os.remove raised)
delete_oldest_files_step_CountsFailures ==
    /\ kpc = "files_loop"
    /\ IF kloc.idx > Len(kloc.list) \/ kloc.current_size <= kloc.max_size_bytes
       THEN Return(kloc.deleted_count)
       ELSE LET e == kloc.list[kloc.idx] IN
            /\ \/ /\ files[e.id].present
                  /\ files' = [files EXCEPT ![e.id] = Gone]
                  /\ dmtime' = Touch(dmtime, FileDir(e.id))
                  /\ UNCHANGED kfailed
               \/ /\ kfailed' = kfailed \cup {e.id}
                  /\ UNCHANGED <<files, dmtime>>
            /\ kloc' = [kloc EXCEPT !.current_size = @ - e.size,
                                    !.deleted_count = @ + 1, !.idx = @ + 1]
            /\ UNCHANGED <<kpc, kres, kbefore>>
    /\ UNCHANGED <<cdirs, active>>
    /\ UNCHANGED notCleanup
\* delete_oldest_files: one turn of the for loop (the break test, os.remove and
\* the running total; an exception of os.remove is printed and the loop goes
\* on), and after the loop the return into run_cleanup, which returns success
delete_oldest_files_step ==
    /\ kpc = "files_loop"
    /\ IF kloc.idx > Len(kloc.list) \/ kloc.current_size <= kloc.max_size_bytes
       THEN Return(kloc.deleted_count)
       ELSE /\ Remove(kloc.list[kloc.idx].id, kloc.list[kloc.idx].size)
            /\ UNCHANGED <<kpc, kres, kbefore>>
    /\ UNCHANGED <<cdirs, active>>
    /\ UNCHANGED notCleanup

\* (variant: no folder is excluded)
FoldersToConsiderAll(folders) == folders
\* folders_to_consider = folders[:-1]
FoldersToConsider(folders) == SubSeq(folders, 1, Len(folders) - 1)

\* delete_oldest_sessions: the size, the folders sorted by mtime, the early
\* returns for no folder and for one folder
delete_oldest_sessions_scan ==
    /\ kpc = "sessions_scan"
    /\ LET folders == ByMtime(get_session_folders(files, cdirs, dmtime)) IN
       IF Len(folders) <= 1
       THEN Return(0)
       ELSE /\ kloc' = [kloc EXCEPT
                           !.current_size = ScanSize(files, kloc.current_size),
                           !.folders = [k \in 1..Len(FoldersToConsider(folders)) |->
                                           FoldersToConsider(folders)[k].path],
                           !.protected = folders[Len(folders)].path,
                           !.idx = 1]
            /\ kpc' = "sessions_loop"
            /\ UNCHANGED <<files, dmtime, kres, kbefore, kfailed>>
    /\ UNCHANGED <<cdirs, active>>
    /\ UNCHANGED notCleanup

\* delete_oldest_sessions, between files: os.walk moves to the next directory
\* of the folder; or the outer loop tests the running total and takes the
\* next folder; or the function returns
delete_oldest_sessions_next ==
    /\ kpc = "sessions_loop"
    /\ kloc.idx > Len(kloc.list)
    /\ IF kloc.walk # <<>>
       THEN /\ kloc' = [kloc EXCEPT !.list = ListDir(files, Head(kloc.walk)),
                                    !.idx = 1, !.walk = Tail(@)]
            /\ UNCHANGED <<files, dmtime, kpc, kres, kbefore, kfailed>>
       ELSE IF kloc.folders # <<>> /\ kloc.current_size > kloc.max_size_bytes
       THEN /\ kloc' = [kloc EXCEPT !.walk = WalkDirs(Head(kloc.folders), cdirs),
                                    !.folders = Tail(@), !.list = <<>>, !.idx = 1]
            /\ UNCHANGED <<files, dmtime, kpc, kres, kbefore, kfailed>>
       ELSE Return(kloc.deleted_count)
    /\ UNCHANGED <<cdirs, active>>
    /\ UNCHANGED notCleanup

\* delete_oldest_sessions, one file of the inner loop: the break test, then
\* os.path.getsize and os.remove inside the try
delete_oldest_sessions_file ==
    /\ kpc = "sessions_loop"
    /\ kloc.idx <= Len(kloc.list)
    /\ IF kloc.current_size <= kloc.max_size_bytes
       THEN /\ kloc' = [kloc EXCEPT !.list = <<>>, !.idx = 1]
            /\ UNCHANGED <<files, dmtime, kfailed>>
       ELSE Remove(kloc.list[kloc.idx], files[kloc.list[kloc.idx]].size)
    /\ UNCHANGED <<kpc, kres, kbefore, cdirs, active>>
    /\ UNCHANGED notCleanup

\* remove_empty_directories, one directory of its bottom-up walk: a
\* subdirectory without entries is removed (the separate prune pass)
remove_empty_directory(d) ==
    /\ kpc = "idle"
    /\ d \in cdirs
    /\ \A i \in Present(files) : FileDir(i) # d
    /\ \A c \in cdirs : Parent(c) # d
    /\ cdirs' = cdirs \ {d}
    /\ dmtime' = Touch(dmtime, Parent(d))
    /\ UNCHANGED <<files, active, kpc, kloc, kres, kbefore, kfailed>>
    /\ UNCHANGED notCleanup

\* the capture side saves a frame as a new file of a session folder
write_frame(i, size) ==
    /\ kpc = "idle"
    /\ FileDir(i) \in {"A", "B"} \cap cdirs
    /\ ~files[i].present
    /\ files' = [files EXCEPT ![i] = [mtime |-> MaxMtime + 1, size |-> size,
                                      present |-> TRUE]]
    /\ dmtime' = Touch(dmtime, FileDir(i))
    /\ active' = FileDir(i)
    /\ UNCHANGED <<cdirs, kpc, kloc, kres, kbefore, kfailed>>
    /\ UNCHANGED notCleanup

\* another actor removes a file, at any moment of a run or of a walk
external_remove(i) ==
    /\ files[i].present
    /\ files' = [files EXCEPT ![i] = Gone]
    /\ dmtime' = Touch(dmtime, FileDir(i))
    /\ UNCHANGED <<cdirs, active, kpc, kloc, kres, kbefore, kfailed>>
    /\ UNCHANGED notCleanup

\* get_directory_size step by step, beside another actor.
\* total_size = 0 and the start of os.walk(directory)
get_directory_size_begin ==
    /\ zpc = "idle"
    /\ zpc' = "walk"
    /\ zloc' = [NoWalkLocals EXCEPT
                   !.walk = <<WatchDir>> \o WalkDirs("A", cdirs) \o WalkDirs("B", cdirs)]
    /\ zstart' = Present(files)
    /\ UNCHANGED <<files, zres>>
    /\ UNCHANGED notWalk

\* the return of the total, after the loops or from the except clause
WalkReturn ==
    /\ zres' = zloc.total_size
    /\ zpc' = "idle"
    /\ zloc' = NoWalkLocals

\* os.walk yields the next directory with its filenames, or is exhausted
get_directory_size_next ==
    /\ zpc = "walk"
    /\ zloc.idx > Len(zloc.filenames)
    /\ IF zloc.walk # <<>>
       THEN /\ zloc' = [zloc EXCEPT !.filenames = ListDir(files, Head(zloc.walk)),
                                    !.idx = 1, !.walk = Tail(@)]
            /\ UNCHANGED <<zpc, zres>>
       ELSE WalkReturn
    /\ UNCHANGED <<files, zstart>>
    /\ UNCHANGED notWalk

\* if os.path.exists(filepath)
get_directory_size_exists ==
    /\ zpc = "walk"
    /\ zloc.idx <= Len(zloc.filenames)
    /\ IF files[zloc.filenames[zloc.idx]].present
       THEN zpc' = "getsize" /\ UNCHANGED zloc
       ELSE zpc' = "walk" /\ zloc' = [zloc EXCEPT !.idx = @ + 1]
    /\ UNCHANGED <<files, zres, zstart>>
    /\ UNCHANGED notWalk

\* total_size += os.path.getsize(filepath); os.path.getsize raises OSError
\* for a file that is gone, and the try around both loops ends the walk
get_directory_size_getsize ==
    /\ zpc = "getsize"
    /\ IF files[zloc.filenames[zloc.idx]].present
       THEN /\ zloc' = [zloc EXCEPT !.total_size = @ + files[zloc.filenames[zloc.idx]].size,
                                    !.idx = @ + 1]
            /\ zpc' = "walk"
            /\ UNCHANGED zres
       ELSE WalkReturn
    /\ UNCHANGED <<files, zstart>>
    /\ UNCHANGED notWalk

(***************************************************************************)
(*                       services/ml_service.py                            *)
(***************************************************************************)

\* Python's None, True and False where a field holds an object or an
\* optional bool
PyNone == "None"
PyTrue == "True"
PyFalse == "False"
\* a model output that float() raises on
Bad == -2

\* Confidences: the models give ten-thousandths, the results hold thousandths.
\* round(float(x), 3)
Round3(x) == (x + 5) \div 10

\* the environment of one initialize() call: whether the import of the
\* classifier module works, which artifacts exist, whether load() works
RoofEnvs == [import_ok : BOOLEAN, artifacts : SUBSET {"pth", "onnx"}, load_ok : BOOLEAN]
SkyEnvs == [import_ok : BOOLEAN, artifacts : SUBSET {"pth", "onnx"}, load_ok : BOOLEAN]

\* model_paths of _init_roof_classifier, in the order they are tried
RoofModelPaths == <<"pth", "onnx">>
SkyModelPaths == <<"pth">>

\* the first path of the list that exists, PyNone when none does
FirstExisting(paths, artifacts) ==
    LET found == SelectSeq(paths, LAMBDA q : q \in artifacts)
    IN IF found = <<>> THEN PyNone ELSE found[1]

\* (variant: a cached error does not stop the next attempt)
ErrorCachedNever(error) == FALSE
\* 'if self._roof_error is not None: return False'
ErrorCached(error) == error # PyNone

\* _init_roof_classifier / _init_sky_classifier: the classifier and the error
\* the call leaves, whether it returns True, and how far it went: "cached"
\* (returned on a cached value), "import" (the import failed), "looked" (no
\* artifact found), "load" (load() was called)
InitClassifier(classifier, error, env, paths, missing) ==
    IF classifier # PyNone
    THEN [classifier |-> classifier, error |-> error, ok |-> TRUE, io |-> "cached"]
    ELSE IF ErrorCached(error)
    THEN [classifier |-> classifier, error |-> error, ok |-> FALSE, io |-> "cached"]
    ELSE IF ~env.import_ok
    THEN [classifier |-> PyNone, error |-> "Import error", ok |-> FALSE,
          io |-> "import"]
    ELSE IF FirstExisting(paths, env.artifacts) = PyNone
    THEN [classifier |-> PyNone, error |-> missing, ok |-> FALSE, io |-> "looked"]
    ELSE IF ~env.load_ok
    THEN [classifier |-> PyNone, error |-> "Load error", ok |-> FALSE, io |-> "load"]
    ELSE [classifier |-> FirstExisting(paths, env.artifacts), error |-> PyNone,
          ok |-> TRUE, io |-> "load"]

\* the config dicts of analyze_image: a flag is absent, true or false; None
\* and {} are the dict without flags
MLFlags == {"absent", PyTrue, PyFalse}
MLConfigs == [roof_classifier : MLFlags, sky_classifier : MLFlags]
\* config = config or {}
NoConfig == [roof_classifier |-> "absent", sky_classifier |-> "absent"]
\* config.get(key, True)
Enabled(flag) == flag # PyFalse

Images == {"gray", "malformed"}

\* what self._roof_classifier.predict does: it raises, or returns roof_open
\* and a confidence
RoofOutcomes ==
    [raises : {TRUE}, roof_open : {FALSE}, confidence : {Bad}]
    \cup [raises : {FALSE}, roof_open : BOOLEAN, confidence : {9204, Bad}]
\* what self._sky_classifier.predict does
SkyOutcomes ==
    [raises : {TRUE}, sky_condition : {"Clear"}, sky_confidence : {Bad},
     stars_visible : {PyFalse}, star_density : {Bad}, moon_visible : {PyFalse}]
    \cup [raises : {FALSE}, sky_condition : {"Clear"},
          sky_confidence : {8004, Bad}, stars_visible : {PyTrue, PyFalse},
          star_density : {0, 6126, Bad}, moon_visible : {PyFalse}]

\* results = {...}, lines 206-214
EmptyResults ==
    [roof_status |-> "N/A", roof_confidence |-> None, sky_condition |-> "N/A",
     sky_confidence |-> None, stars_visible |-> PyNone, star_density |-> None,
     moon_visible |-> PyNone]

\* (variant: _compute_corner_analysis without its try)
CornerAnalysisUnguarded(image) == image = "malformed"
\* _compute_corner_analysis: a try around the whole body, so it never raises
CornerAnalysisRaises(image) == FALSE

\* the roof block, lines 221-236: the assignments made before an exception
\* stay in results
RoofBlock(results, s, config, roof) ==
    IF ~(Enabled(config.roof_classifier) /\ s.roof_classifier # PyNone) THEN results
    ELSE IF roof.raises THEN results
    ELSE LET status == [results EXCEPT
                           !.roof_status = IF roof.roof_open THEN "Open" ELSE "Closed"]
         IN IF roof.confidence = Bad THEN status
            ELSE [status EXCEPT !.roof_confidence = Round3(roof.confidence)]

\* (variant: the sky block does not ask for an open roof)
SkyRunsRoofBlind(results, s, config) ==
    Enabled(config.sky_classifier) /\ s.sky_classifier # PyNone
\* the condition of line 242
SkyRuns(results, s, config) ==
    /\ Enabled(config.sky_classifier)
    /\ results.roof_status = "Open"
    /\ s.sky_classifier # PyNone

\* the sky block, lines 239-261
SkyBlock(results, s, config, sky) ==
    IF ~SkyRuns(results, s, config) THEN results
    ELSE IF sky.raises THEN results
    ELSE LET r1 == [results EXCEPT !.sky_condition = sky.sky_condition] IN
         IF sky.sky_confidence = Bad THEN r1
         ELSE LET r2 == [r1 EXCEPT !.sky_confidence = Round3(sky.sky_confidence),
                                   !.stars_visible = sky.stars_visible] IN
              IF sky.star_density = Bad THEN r2
              ELSE [r2 EXCEPT !.star_density = Round3(sky.star_density),
                              !.moon_visible = sky.moon_visible]

\* the fields __init__ sets, lines 58-66
FreshService ==
    [initialized |-> TRUE, roof_classifier |-> PyNone, sky_classifier |-> PyNone,
     roof_error |-> PyNone, sky_error |-> PyNone, models_loaded |-> FALSE]

NoInitialize ==
    [called |-> FALSE, roof_io |-> "cached", sky_io |-> "cached", ret |-> FALSE,
     roof_artifacts |-> {}, sky_artifacts |-> {}, rehandled |-> FALSE]

\* the state after the first MLService()
InitML ==
    /\ svc = FreshService
    /\ last_results = <<>>
    /\ mret = [outcome |-> "none", results |-> <<>>]
    /\ mcall = [image |-> "gray", config |-> NoConfig, roof_classifier |-> PyNone,
                sky_classifier |-> PyNone, sky_ran |-> FALSE]
    /\ minit = NoInitialize
    /\ mnew = FALSE
    /\ mgot = [called |-> FALSE, value |-> <<>>, shared |-> FALSE, changed |-> FALSE]

\* (variant: __init__ without its guard)
NeverInitialized(s) == FALSE
\* 'if self._initialized: return'
AlreadyInitialized(s) == s.initialized

\* MLService(): __new__ hands out the one instance, __init__ runs on it again
MLService ==
    /\ IF AlreadyInitialized(svc)
       THEN UNCHANGED <<svc, last_results>>
       ELSE svc' = FreshService /\ last_results' = <<>>
    /\ mnew' = TRUE
    /\ UNCHANGED <<mret, mcall, minit, mgot>>
    /\ UNCHANGED notML

\* (variant: the sky model is tried only when the roof model failed)
InitializeShortCircuit(s, roof_env, sky_env) ==
    LET roof == InitClassifier(s.roof_classifier, s.roof_error, roof_env,
                               RoofModelPaths, "Roof model file not found")
        sky == IF roof.ok
               THEN [classifier |-> s.sky_classifier, error |-> s.sky_error,
                     ok |-> FALSE, io |-> "cached"]
               ELSE InitClassifier(s.sky_classifier, s.sky_error, sky_env,
                                   SkyModelPaths, "Sky model file not found")
    IN [roof |-> roof, sky |-> sky, ret |-> roof.ok \/ sky.ok]
\* the two attempts of initialize and the value it returns
Initialize(s, roof_env, sky_env) ==
    LET roof == InitClassifier(s.roof_classifier, s.roof_error, roof_env,
                               RoofModelPaths, "Roof model file not found")
        sky == InitClassifier(s.sky_classifier, s.sky_error, sky_env,
                              SkyModelPaths, "Sky model file not found")
    IN [roof |-> roof, sky |-> sky, ret |-> roof.ok \/ sky.ok]

\* MLService.initialize
initialize(roof_env, sky_env) ==
    /\ LET done == Initialize(svc, roof_env, sky_env)
       IN /\ svc' = [svc EXCEPT !.roof_classifier = done.roof.classifier,
                                !.roof_error = done.roof.error,
                                !.sky_classifier = done.sky.classifier,
                                !.sky_error = done.sky.error,
                                !.models_loaded = done.ret]
          /\ minit' = [called |-> TRUE, roof_io |-> done.roof.io,
                       sky_io |-> done.sky.io, ret |-> done.ret,
                       roof_artifacts |-> roof_env.artifacts,
                       sky_artifacts |-> sky_env.artifacts,
                       rehandled |-> mnew]
    /\ mnew' = FALSE
    /\ UNCHANGED <<last_results, mret, mcall, mgot>>
    /\ UNCHANGED notML

\* MLService.analyze_image: an exception that leaves the function skips the
\* caching of line 264
analyze_image(image, config, roof, sky) ==
    /\ LET afterRoof == RoofBlock(EmptyResults, svc, config, roof)
           results == SkyBlock(afterRoof, svc, config, sky)
       IN /\ IF CornerAnalysisRaises(image)
             THEN /\ mret' = [outcome |-> "raised", results |-> <<>>]
                  /\ UNCHANGED last_results
             ELSE /\ mret' = [outcome |-> "returned", results |-> results]
                  /\ last_results' = results
          /\ mcall' = [image |-> image, config |-> config,
                       roof_classifier |-> svc.roof_classifier,
                       sky_classifier |-> svc.sky_classifier,
                       sky_ran |-> SkyRuns(afterRoof, svc, config)]
    /\ mgot' = [mgot EXCEPT !.shared = FALSE]
    /\ UNCHANGED <<svc, minit, mnew>>
    /\ UNCHANGED notML

\* (variant: get_last_results hands out the cached dict itself)
LastResultsAliased == TRUE
\* self._last_results.copy(): the dict handed out is not the cached one
LastResultsShared == FALSE

\* MLService.get_last_results
get_last_results ==
    /\ mgot' = [called |-> TRUE, value |-> last_results,
                shared |-> LastResultsShared, changed |-> FALSE]
    /\ UNCHANGED <<svc, last_results, mret, mcall, minit, mnew>>
    /\ UNCHANGED notML

\* the caller assigns to a key of the dict get_last_results handed out; the
\* cache changes with it when the two are one object
caller_update ==
    /\ mgot.called
    /\ DOMAIN mgot.value # {}
    /\ mgot' = [mgot EXCEPT !.value.roof_status = "changed", !.changed = TRUE]
    /\ last_results' = IF mgot.shared THEN mgot'.value ELSE last_results
    /\ UNCHANGED <<svc, mret, mcall, minit, mnew>>
    /\ UNCHANGED notML

(***************************************************************************)
(*                          Specifications                                 *)
(***************************************************************************)

\* the configuration the writer has while another service is examined
DefaultConfig ==
    [file_path |-> <<>>, preamble |-> "Roof Status:", open_trigger |-> "OPEN",
     closed_trigger |-> "CLOSED", include_confidence |-> TRUE,
     include_sky_condition |-> TRUE, min_confidence |-> 700]

NextSafety ==
    \/ Tick
    \/ \E m \in MLResults : write_status(m)
    \/ atomic_write_ensure_dir
    \/ atomic_write_open
    \/ atomic_write_write
    \/ atomic_write_replace
    \/ atomic_write_cleanup

\* the watch directory while another service is examined
InitNoCleanup ==
    /\ files = [i \in FileIds |-> [mtime |-> 1, size |-> 1, present |-> TRUE]]
    /\ cdirs = SubDirs
    /\ dmtime = [d \in {"A", "B"} |-> IF d = "B" THEN 2 ELSE 1]
    /\ active = "B"
    /\ kpc = "idle"
    /\ kloc = NoCleanupLocals
    /\ kres = [ok |-> TRUE, message |-> "none", deleted |-> 0]
    /\ kbefore = {}
    /\ kfailed = {}
    /\ zpc = "idle"
    /\ zloc = NoWalkLocals
    /\ zres = 0
    /\ zstart = {}

InitSafety ==
    /\ \E config \in Configs : writer = NewWriter(config)
    /\ InitWriter
    /\ InitRTSP
    /\ InitNoCleanup
    /\ InitML
    /\ InitDistributor

SpecSafety == InitSafety /\ [][NextSafety]_vars

NextRTSP ==
    \/ \E ffmpeg \in FfmpegStates : start_check(ffmpeg)
    \/ start_spawn
    \/ \E t \in 1..Len(threads) : pump_tick(t)
    \/ \E t \in 1..Len(threads) : pump_write(t)
    \/ stop_begin
    \/ stop_close
    \/ stop_terminate
    \/ stop_kill
    \/ \E size \in ImageSizes : update_image(size)
    \/ restart_stop
    \/ restart_spawn
    \/ update_store
    \/ process_exit

InitBridge ==
    /\ writer = NewWriter(DefaultConfig)
    /\ InitWriter
    /\ InitRTSP
    /\ InitNoCleanup
    /\ InitML
    /\ InitDistributor

SpecRTSP == InitBridge /\ [][NextRTSP]_vars

\* the module-level writer, used through write_ascom_safety_file alone
NextFacade ==
    \/ Tick
    \/ \E m \in MLResults, config \in FacadeConfigs :
          /\ m.sky_condition = "N/A" /\ m.roof_confidence = 920
          /\ write_ascom_safety_file(m, config)
    \/ atomic_write_ensure_dir
    \/ atomic_write_open
    \/ atomic_write_write
    \/ atomic_write_replace
    \/ atomic_write_cleanup

SpecFacade == InitBridge /\ [][NextFacade]_vars

\* the bridge used through the output distributor alone: the selector and
\* on_output_mode_change on the thread of the GUI, the frame producer on its
\* own, the pump threads and the encoder subprocesses
NextSwitch ==
    \/ \E mode \in OutputModes : select_mode(mode)
    \/ switch_teardown
    \/ \E ffmpeg \in FfmpegStates : switch_activate(ffmpeg)
    \/ switch_done
    \/ \E size \in ImageSizes : route_frame(size)
    \/ start_spawn
    \/ \E t \in 1..Len(threads) : pump_tick(t)
    \/ \E t \in 1..Len(threads) : pump_write(t)
    \/ stop_close
    \/ stop_terminate
    \/ stop_kill
    \/ restart_stop
    \/ restart_spawn
    \/ update_store
    \/ process_exit

SpecSwitch == InitBridge /\ [][NextSwitch]_vars

\* the ml_results of MLResults, and those with a sky condition and no
\* sky_confidence
DocumentResults ==
    {m \in MLResults : m.roof_confidence # 500}
    \cup {[roof_status |-> r, roof_confidence |-> c, sky_condition |-> "Clear",
           sky_confidence |-> None] : r \in {"Open", "Closed"}, c \in {None, 920}}

\* a writer of any configuration, called with any of these results
NextDocument ==
    \/ Tick
    \/ \E m \in DocumentResults : write_status(m)
    \/ atomic_write_ensure_dir
    \/ atomic_write_open
    \/ atomic_write_write
    \/ atomic_write_replace
    \/ atomic_write_cleanup

SpecDocument == InitSafety /\ [][NextDocument]_vars

\* the config dicts of an application whose settings are edited between
\* frames: the file_path stays, the other fields change
SettingsConfigs ==
    [enabled : {TRUE}, file_path : {<<"alt.txt">>},
     preamble : {"Roof Status:", "Dome:"},
     open_trigger : {"OPEN", "SAFE"}, closed_trigger : {"CLOSED"},
     include_confidence : {FALSE}, include_sky_condition : {FALSE},
     min_confidence : {700, 950}]

\* the results of the frames written meanwhile
SettingsResults ==
    {m \in MLResults : /\ m.roof_status # "N/A" /\ m.sky_condition = "N/A"
                       /\ m.roof_confidence = 920}

\* the module-level writer, called with the settings of the moment
NextSettings ==
    \/ \E m \in SettingsResults, config \in SettingsConfigs :
          write_ascom_safety_file(m, config)
    \/ atomic_write_ensure_dir
    \/ atomic_write_open
    \/ atomic_write_write
    \/ atomic_write_replace
    \/ atomic_write_cleanup

SpecSettings == InitBridge /\ [][NextSettings]_vars

\* start, stop and start again, with frames of the placeholder size supplied
\* up to the second start() and none after it
NextRestart ==
    \/ \E ffmpeg \in FfmpegStates : start_check(ffmpeg)
    \/ start_spawn
    \/ \E t \in 1..Len(threads) : pump_tick(t)
    \/ \E t \in 1..Len(threads) : pump_write(t)
    \/ stop_begin
    \/ stop_close
    \/ stop_terminate
    \/ stop_kill
    \/ Len(threads) < 2 /\ cpc # "start_spawn" /\ update_image(PlaceholderSize)
    \/ Len(threads) < 2 /\ update_store
    \/ process_exit

SpecRestart == InitBridge /\ [][NextRestart]_vars

\* two threads write through writers of one configured file_path
NextPair ==
    \/ \E t \in Callers, m \in PairResults : thread_write_status(t, m)
    \/ \E t \in Callers : thread_ensure_dir(t)
    \/ \E t \in Callers : thread_open(t)
    \/ \E t \in Callers : thread_write(t)
    \/ \E t \in Callers : thread_replace(t)
    \/ \E t \in Callers : thread_cleanup(t)

InitPair ==
    /\ \E q \in FilePaths \ {<<>>} :
          writer = NewWriter([DefaultConfig EXCEPT !.file_path = q])
    /\ InitWriter
    /\ InitRTSP
    /\ InitNoCleanup
    /\ InitML
    /\ InitDistributor

SpecPair == InitPair /\ [][NextPair]_vars

\* the bridge constructed with any of the configurations
InitStream ==
    /\ writer = NewWriter(DefaultConfig)
    /\ InitWriter
    /\ \E conf \in RTSPConfigs :
          /\ rconf = conf
          /\ running = FALSE /\ process = 0 /\ procs = <<>>
          /\ frame_size = NoSize /\ last_frame = NoFrame /\ threads = <<>>
          /\ cpc = "idle" /\ upc = "idle" /\ uloc = NoLocals
          /\ nframes = 0 /\ sOld = 0 /\ sret = NoStart /\ stored = {}
    /\ InitNoCleanup
    /\ InitML
    /\ InitDistributor

SpecStream == InitStream /\ [][NextRTSP]_vars

\* a call of run_cleanup, step by step
NextRun ==
    \/ \E config \in CleanupConfigs : run_cleanup(config)
    \/ delete_oldest_files_scan
    \/ delete_oldest_files_step
    \/ delete_oldest_sessions_scan
    \/ delete_oldest_sessions_next
    \/ delete_oldest_sessions_file

\* runs of the cleanup and the prune pass
NextCleanup ==
    \/ NextRun
    \/ \E d \in SubDirs : remove_empty_directory(d)

InitEviction ==
    /\ writer = NewWriter(DefaultConfig)
    /\ InitWriter
    /\ InitRTSP
    /\ InitCleanup
    /\ InitML
    /\ InitDistributor

SpecCleanup == InitEviction /\ [][NextCleanup]_vars

\* runs of the cleanup and the prune pass on one directory, for the
\* properties of the policy's handling
SpecPolicy == InitBridge /\ [][NextCleanup]_vars

\* runs of the cleanup with strategy OldestSessionFolders between which the
\* capture side saves frames
NextCapture ==
    \/ \E config \in CleanupConfigs :
          config.cleanup_strategy = OldestSessions /\ run_cleanup(config)
    \/ delete_oldest_sessions_scan
    \/ delete_oldest_sessions_next
    \/ delete_oldest_sessions_file
    \/ \E i \in FileIds, size \in FileSizes : write_frame(i, size)

SpecCapture == InitBridge /\ [][NextCapture]_vars

\* runs of the cleanup during which another actor removes files
NextRace ==
    \/ NextRun
    \/ \E i \in FileIds : external_remove(i)

SpecRace == InitBridge /\ [][NextRace]_vars

\* get_directory_size while another actor removes files
NextWalk ==
    \/ get_directory_size_begin
    \/ get_directory_size_next
    \/ get_directory_size_exists
    \/ get_directory_size_getsize
    \/ \E i \in FileIds : external_remove(i)

SpecWalk == InitEviction /\ [][NextWalk]_vars

\* environments in which every import and load works and no .onnx file exists
SoundEnvs(envs) ==
    {env \in envs : env.import_ok /\ env.load_ok /\ env.artifacts \subseteq {"pth"}}

NextML ==
    \/ \E roof_env \in SoundEnvs(RoofEnvs), sky_env \in SoundEnvs(SkyEnvs) :
          initialize(roof_env, sky_env)
    \/ \E image \in Images, config \in MLConfigs, roof \in RoofOutcomes,
          sky \in SkyOutcomes : analyze_image(image, config, roof, sky)

SpecML == InitBridge /\ [][NextML]_vars

\* construction and initialization in every environment, with one frame
\* analysed in between
NextInit ==
    \/ MLService
    \/ \E roof_env \in RoofEnvs, sky_env \in SkyEnvs : initialize(roof_env, sky_env)
    \/ \E roof \in RoofOutcomes, sky \in SkyOutcomes :
          /\ ~roof.raises /\ roof.confidence # Bad
          /\ ~sky.raises /\ sky.sky_confidence # Bad /\ sky.star_density = 0
          /\ analyze_image("gray", NoConfig, roof, sky)

SpecInit == InitBridge /\ [][NextInit]_vars

\* the cache of the last result and its readers
NextCache ==
    \/ \E roof_env \in SoundEnvs(RoofEnvs), sky_env \in SoundEnvs(SkyEnvs) :
          initialize(roof_env, sky_env)
    \/ \E roof \in RoofOutcomes, sky \in SkyOutcomes :
          /\ ~roof.raises /\ roof.confidence # Bad
          /\ analyze_image("gray", NoConfig, roof, sky)
    \/ get_last_results
    \/ caller_update

SpecCache == InitBridge /\ [][NextCache]_vars

(***************************************************************************)
(*               Properties of the safety signal writer                    *)
(***************************************************************************)

\* the file an external reader finds at the configured path
Target == IF is_configured(writer) THEN fs[writer.file_path] ELSE NoFile
\* the temp sibling
Temp == IF is_configured(writer) THEN fs[TempPath(writer)] ELSE NoFile

\* a whole document: the first line, optional lines, the Updated line
IsCompleteDocument(ls) ==
    /\ Len(ls) >= 2
    /\ ls[1].k = "first"
    /\ ls[Len(ls)].k = "updated"
    /\ \A i \in 2..(Len(ls) - 1) : ls[i].k \in {"conf", "sky"}

\* C1: at every instant (a reader may read the target path in any state) the
\* target is absent or holds a whole document, and the only step that changes
\* the target is the rename of the completely written temp sibling over it.
C1_ReaderNeverSeesPartial ==
    /\ [](Target = NoFile \/ (Target.exists /\ IsCompleteDocument(Target.lines)))
    /\ [][Target' # Target =>
            /\ wpc = "replace"
            /\ Temp = File(content)
            /\ IsCompleteDocument(content)
            /\ Target' = File(content)]_vars

\* C1 witness: a write is half way (the temp sibling holds a proper, non-empty
\* prefix of the content) while the target holds the previous document.
C1_Witness ==
    /\ wpc = "write"
    /\ Target.exists
    /\ Temp.exists
    /\ Len(Temp.lines) >= 1
    /\ Len(Temp.lines) < Len(content)

\* the skip condition as the claim words it
C2_Skip(m) ==
    \/ m.roof_status = "N/A"
    \/ (m.roof_confidence # None /\ m.roof_confidence < writer.min_confidence)

\* C2 (as claimed): write_status is a no-op returning False when roof_status is
\* N/A or the confidence is present and below min_confidence, and in every
\* other case it attempts the write (enters _atomic_write).
C2_Original ==
    [][\A m \in MLResults : write_status(m) =>
          IF C2_Skip(m)
          THEN fs' = fs /\ ret' = "False" /\ wpc' = "idle"
          ELSE wpc' = "ensure_dir"]_vars

\* C2 (amended): the same, with the third case in which no write is attempted:
\* a writer without a configured path returns False and touches nothing.
C2_SkipIsNoOp ==
    [][\A m \in MLResults : write_status(m) =>
          IF ~is_configured(writer) \/ C2_Skip(m)
          THEN fs' = fs /\ ret' = "False" /\ wpc' = "idle"
          ELSE wpc' = "ensure_dir" /\ fs' = fs]_vars

\* C2 witness: a call was skipped while the target held a document.
C2_Witness ==
    /\ wpc = "idle"
    /\ skipped
    /\ ret = "False"
    /\ Target.exists

\* C3: the first line of the target is "<preamble> <open_trigger>" exactly when
\* the last call that returned True had roof_status Open, and
\* "<preamble> <closed_trigger>" exactly when it had roof_status Closed.
C3_FirstLineFollowsLastWrite ==
    /\ lastOk = "Open" <=>
         (Target.exists /\ Target.lines[1] =
             Line("first", writer.preamble, writer.open_trigger, 0))
    /\ lastOk = "Closed" <=>
         (Target.exists /\ Target.lines[1] =
             Line("first", writer.preamble, writer.closed_trigger, 0))

\* C3 witness: Open with confidence 0.92 (threshold 0.7) was written, and a
\* later call was skipped or failed without changing the first line.
C3_Witness ==
    /\ wpc = "idle"
    /\ lastOk = "Open"
    /\ ret = "False"
    /\ writer.min_confidence = 700
    /\ Target.exists
    /\ Target.lines[1] = Line("first", writer.preamble, writer.open_trigger, 0)
    /\ \E i \in 1..Len(Target.lines) :
           Target.lines[i] = Line("conf", "Confidence:", "", 92)

\* C4 (as claimed): a write that fails before the rename leaves the target
\* unchanged, returns False, and leaves no temp sibling behind.
C4_Original ==
    [][/\ (wpc # "idle" /\ ~(wpc = "replace" /\ ret' = "True")) => Target' = Target
       /\ (wpc # "idle" /\ wpc' = "idle" /\ ret' # "True") =>
             (ret' = "False" /\ Temp' = NoFile)]_vars

\* C4 (amended): a write that fails before the rename leaves the target
\* unchanged and returns False; the temp sibling is gone afterwards unless its
\* removal itself failed.
C4_FailedWriteKeepsTarget ==
    [][/\ (wpc # "idle" /\ ~(wpc = "replace" /\ ret' = "True")) => Target' = Target
       /\ (wpc # "idle" /\ wpc' = "idle" /\ ret' # "True") =>
             (ret' = "False" /\ (Temp' = NoFile \/ rmFailed'))]_vars

\* C4 witness: the rename itself failed on a completely written temp sibling,
\* the temp sibling was removed and the previous document is still in place.
C4_Witness ==
    /\ wpc = "idle"
    /\ ret = "False"
    /\ ~skipped
    /\ ~rmFailed
    /\ Target.exists
    /\ Temp = NoFile

(***************************************************************************)
(*                    Properties of the RTSP bridge                        *)
(***************************************************************************)

\* the pump thread of the last successful start()
CurrentPump == threads[Len(threads)]

\* C5: every frame the pump writes to a subprocess has the (width, height) the
\* subprocess was started with (checked on each step in which a pump thread's
\* write reaches the subprocess).
C5_WrittenFrameMatchesSubprocess ==
    [][\A t \in 1..Len(threads) :
          (threads[t].pc = "write" /\ threads'[t].pc # "write" /\ Accepts(process))
          => threads[t].frame_bytes.size = procs[process].size]_vars

\* C6: while Running (and with no start() or stop() under way), when
\* update_image comes to store its frame it has restarted the subprocess
\* exactly once if the frame's size differed from the size the subprocess was
\* started with, and not at all if the sizes were equal.
C6_OneRestartPerSizeChange ==
    (upc = "store" /\ running /\ cpc = "idle")
    => /\ uloc.need => (uloc.spawned = 1 /\ procs[process].size = uloc.new_size)
       /\ ~uloc.need => uloc.spawned = 0

\* C7: once the pump has stopped on a broken pipe or because the subprocess
\* exited, the bridge is Stopped: running is false and get_url returns nothing.
C7_PumpFailureStopsBridge ==
    (Len(threads) > 0 /\ CurrentPump.pc = "exited"
        /\ CurrentPump.why \in {"broken_pipe", "process_exit"})
    => (~running /\ get_url = "None")

\* C8: after a resolution change whose respawn succeeded, with the bridge
\* Running and the new subprocess alive, the pump loop is still active.
C8_PumpSurvivesRestart ==
    (running /\ Alive(process) /\ cpc = "idle" /\ upc \in {"store", "idle"}
        /\ uloc.spawned = 1 /\ process = Len(procs))
    => CurrentPump.pc # "exited"

\* C9: the subprocess that a restart set out to replace is no longer running
\* once the restart has done its terminate-and-wait, and the subprocess that
\* stop() found is no longer running once stop() has returned.
C9_OldSubprocessNeverSurvives ==
    /\ (uloc.old # 0 /\ upc \in {"restart_spawn", "store", "idle"})
          => ~procs[uloc.old].alive
    /\ (sOld # 0 /\ cpc = "idle") => ~procs[sOld].alive

(***************************************************************************)
(*                   Properties of the eviction engine                     *)
(***************************************************************************)

\* a step of a run_cleanup call that reached delete_oldest_files
C10_RunStep == kpc # "idle"
\* the step on which such a call returns
C10_Returns == kpc = "files_scan" \/ kpc = "files_loop"

\* C10 (as claimed): when Run with strategy OldestFiles returns, the total size
\* is at most the cap or every file that was in the directory has been
\* removed; and no step of the run removes a directory.
C10_Original ==
    [][/\ (C10_Returns /\ kpc' = "idle") =>
            \/ get_directory_size(files') <= kloc.max_size_bytes
            \/ \A i \in kbefore : ~files'[i].present
       /\ C10_RunStep => cdirs' = cdirs]_vars

\* C10 (amended): ... or every file that was in the directory has been removed
\* or is a file whose deletion failed; and no step of the run removes a
\* directory.
C10_UnderCapOrExhausted ==
    [][/\ (C10_Returns /\ kpc' = "idle") =>
            \/ get_directory_size(files') <= kloc.max_size_bytes
            \/ \A i \in kbefore : ~files'[i].present \/ i \in kfailed
       /\ C10_RunStep => cdirs' = cdirs]_vars

\* C10 witness: a run over the cap is about to return after deleting some
\* files but not all of them, the size under the cap, every directory there.
C10_Witness ==
    /\ kpc = "files_loop"
    /\ kloc.deleted_count >= 1
    /\ kloc.idx <= Len(kloc.list)
    /\ Present(files) # {}
    /\ get_directory_size(files) <= kloc.max_size_bytes
    /\ cdirs = SubDirs

\* the step on which delete_oldest_files returns after its loop
C11_LoopReturns == kpc = "files_loop" /\ kpc' = "idle"
\* the places of the sorted list whose files the run removed
C11_Removed == {j \in 1..(kloc.idx - 1) : kloc.list[j].id \notin kfailed}
C11_Last == CHOOSE j \in C11_Removed : \A k \in C11_Removed : k <= j

\* C11 (as claimed): the files removed by Run with strategy OldestFiles are
\* exactly the shortest prefix of the files in ascending mtime order whose
\* removal brings the total to the cap or below: no removed file is newer
\* than a kept one, and deletion stops at the first point the total is at or
\* under the cap.
C11_Original ==
    [][C11_LoopReturns =>
         /\ \E k \in 0..Len(kloc.list) : C11_Removed = 1..k
         /\ \A j \in C11_Removed, m \in (1..Len(kloc.list)) \ C11_Removed :
               kloc.list[j].mtime <= kloc.list[m].mtime
         /\ get_directory_size(files') <= kloc.max_size_bytes
         /\ C11_Removed # {} =>
               get_directory_size(files') + kloc.list[C11_Last].size
                  > kloc.max_size_bytes]_vars

\* C11 (amended): in a run that no other actor disturbs, the files are taken
\* in ascending mtime order and a file whose deletion fails is skipped: no
\* removed file is newer than a kept file whose deletion did not fail, and
\* deletion stops at the first point the running total is at or under the
\* cap; when no deletion fails the removed files are exactly the shortest
\* prefix that brings the total to the cap or below.
C11_OldestPrefixRemoved ==
    [][C11_LoopReturns =>
         /\ \A j \in C11_Removed, m \in (1..Len(kloc.list)) \ C11_Removed :
               kloc.list[m].id \notin kfailed
                  => kloc.list[j].mtime <= kloc.list[m].mtime
         /\ C11_Removed # {} =>
               get_directory_size(files') + kloc.list[C11_Last].size
                  > kloc.max_size_bytes
         /\ kfailed = {} =>
               /\ \E k \in 0..Len(kloc.list) : C11_Removed = 1..k
               /\ get_directory_size(files') <= kloc.max_size_bytes]_vars

\* C11 witness: a run is about to return having removed the oldest files only,
\* which the walk had listed after a newer file that is kept.
C11_Witness ==
    /\ kpc = "files_loop"
    /\ kfailed = {}
    /\ kloc.current_size <= kloc.max_size_bytes
    /\ kloc.idx > 1 /\ kloc.idx <= Len(kloc.list)
    /\ kloc.list[kloc.idx - 1].mtime < kloc.list[kloc.idx].mtime
    /\ \E j \in 1..(kloc.idx - 1) : kloc.list[j].id > kloc.list[kloc.idx].id

\* the top-level folders that exist
C12_TopFolders == {"A", "B"} \cap cdirs

\* C12: a run with strategy OldestSessionFolders protects the top-level folder
\* whose modification time is the maximum at the listing and never deletes a
\* file inside it, however far the directory is over the cap; with one
\* top-level folder or none the run deletes nothing.
C12_LatestFolderUntouched ==
    [][/\ (kpc = "sessions_scan" /\ kpc' = "sessions_loop") =>
            /\ kloc'.protected \in C12_TopFolders
            /\ \A d \in C12_TopFolders : dmtime[d] <= dmtime[kloc'.protected]
       /\ kpc = "sessions_loop" =>
            \A i \in FileIds : Under(i, kloc.protected) => files'[i] = files[i]
       /\ (kpc = "sessions_scan" /\ Cardinality(C12_TopFolders) <= 1) =>
            (files' = files /\ kpc' = "idle" /\ kres'.deleted = 0)]_vars

\* C12 witness: a run has emptied the older folder and is about to return
\* with the directory still over the cap and the latest folder's file kept.
C12_Witness ==
    /\ kpc = "sessions_loop"
    /\ kloc.deleted_count >= 1
    /\ kloc.folders = <<>> /\ kloc.walk = <<>> /\ kloc.idx > Len(kloc.list)
    /\ kloc.current_size > kloc.max_size_bytes
    /\ \E i \in Present(files) : Under(i, kloc.protected)

\* C13: across runs with strategy OldestSessionFolders and frame writes, no
\* step of a run deletes a file of the active session folder, the folder that
\* most recently received a frame.
C13_ActiveFolderNeverCleaned ==
    [][kpc = "sessions_loop" =>
         \A i \in FileIds :
            (Under(i, active) /\ files[i].present) => files'[i].present]_vars

\* the policy is enabled, its directory exists and its cap is a number
C16_Runnable(config) ==
    /\ config.cleanup_enabled
    /\ config.watch_directory = WatchDir
    /\ config.cleanup_max_size_gb # None
C16_UnderCap(config) ==
    /\ C16_Runnable(config)
    /\ get_directory_size(files) <= config.cleanup_max_size_gb * GiB
\* the call returns at once and leaves the directory as it is
C16_NoOp == kpc' = "idle" /\ files' = files /\ cdirs' = cdirs

\* C16: a call of Run whose policy is disabled, or whose (existing) directory
\* is at or under the cap, returns success and removes nothing, whatever the
\* strategy.
C16_DisabledOrUnderCapIsNoOp ==
    [][\A config \in CleanupConfigs :
          (run_cleanup(config) /\ (~config.cleanup_enabled \/ C16_UnderCap(config)))
          => (C16_NoOp /\ kres'.ok)]_vars

\* C16 witness: a call on a directory that holds files has returned the
\* under-the-cap success.
C16_Witness ==
    /\ kpc = "idle"
    /\ kres.ok /\ kres.message = "under limit"
    /\ Present(files) # {}

C17_UnknownStrategy(config) ==
    /\ config.cleanup_enabled
    /\ config.watch_directory = WatchDir
    /\ config.cleanup_strategy \notin {OldestFiles, OldestSessions}

\* C17 (as claimed): for every enabled policy with a valid directory and a
\* strategy that is neither OldestFiles nor OldestSessionFolders, Run returns
\* an error result and deletes nothing.
C17_Original ==
    [][\A config \in CleanupConfigs :
          (run_cleanup(config) /\ C17_UnknownStrategy(config))
          => (C16_NoOp /\ ~kres'.ok)]_vars

\* C17 (amended): ... Run deletes nothing, and returns an error result when
\* the directory is over the cap; at or under the cap it returns the no-op
\* success before the strategy is looked at.
C17_UnknownStrategyOverCapIsError ==
    [][\A config \in CleanupConfigs :
          (run_cleanup(config) /\ C17_UnknownStrategy(config))
          => /\ C16_NoOp
             /\ ~C16_UnderCap(config) => ~kres'.ok
             /\ C16_UnderCap(config) => kres'.ok]_vars

\* C17 witness: a call has returned the unknown-strategy error on a directory
\* that holds files.
C17_Witness ==
    /\ kpc = "idle"
    /\ ~kres.ok /\ kres.message = "Unknown cleanup strategy"
    /\ Present(files) # {}

\* C18: Run on an enabled policy whose directory name is empty or names no
\* existing directory returns a failure result and deletes nothing; and an
\* exception inside Run (the TypeError of a cap that is None) is turned into a
\* failure result.
C18_BadDirectoryOrExceptionIsFailure ==
    [][\A config \in CleanupConfigs :
          (run_cleanup(config) /\ config.cleanup_enabled)
          => /\ config.watch_directory # WatchDir
                  => (C16_NoOp /\ ~kres'.ok
                        /\ kres'.message = "Watch directory not valid")
             /\ (config.watch_directory = WatchDir /\ config.cleanup_max_size_gb = None)
                  => (C16_NoOp /\ ~kres'.ok /\ kres'.message = "Cleanup error")]_vars

\* C18 witness: a call has returned the invalid-directory failure while the
\* watch directory holds files.
C18_Witness ==
    /\ kpc = "idle"
    /\ ~kres.ok /\ kres.message = "Watch directory not valid"
    /\ Present(files) # {}

(***************************************************************************)
(*           The eviction engine beside other actors                       *)
(***************************************************************************)

\* the file whose deletion the loop is about to attempt, 0 when there is none
C14_Candidate ==
    IF kloc.idx > Len(kloc.list) \/ kloc.current_size <= kloc.max_size_bytes THEN 0
    ELSE IF kpc = "files_loop" THEN kloc.list[kloc.idx].id
    ELSE IF kpc = "sessions_loop" THEN kloc.list[kloc.idx]
    ELSE 0

C15_SizeCoversSurvivingFiles ==
    [][(zpc # "idle" /\ zpc' = "idle") =>
         zres' >= SumSizes(files, zstart \cap Present(files))]_vars

(***************************************************************************)
(*                     Properties: inference service                       *)
(***************************************************************************)

ResultFields ==
    {"roof_status", "roof_confidence", "sky_condition", "sky_confidence",
     "stars_visible", "star_density", "moon_visible"}

\* the call that has just ended was made with no classifier loaded
C19_NoModels == mcall.roof_classifier = PyNone /\ mcall.sky_classifier = PyNone

\* C19: analyze_image never raises, whatever the frame, the config and the
\* models' behaviour, and its result holds all seven fields; with no model
\* loaded the result is roof_status 'N/A' and every optional field absent.
C19_NeverRaisesFullyShaped ==
    mret.outcome # "none" =>
        /\ mret.outcome = "returned"
        /\ DOMAIN mret.results = ResultFields
        /\ C19_NoModels => mret.results = EmptyResults

\* a call on a malformed frame with no model loaded has returned the defaults
C19_Witness ==
    /\ mret.outcome = "returned"
    /\ mcall.image = "malformed"
    /\ C19_NoModels
    /\ mret.results = EmptyResults

SkyFields ==
    {"sky_condition", "sky_confidence", "stars_visible", "star_density",
     "moon_visible"}

\* some sky field of the result differs from its initial value
SkyPresent(r) == \E f \in SkyFields : r[f] # EmptyResults[f]

\* C20: in every result of analyze_image, a present sky field implies that
\* roof_status is Open and the sky model is loaded and enabled; when the sky
\* prediction did not run, every sky field is absent (None / 'N/A').
C20_SkyOnlyUnderOpenRoof ==
    mret.outcome = "returned" =>
        /\ SkyPresent(mret.results) =>
               /\ mret.results.roof_status = "Open"
               /\ mcall.sky_classifier # PyNone
               /\ Enabled(mcall.config.sky_classifier)
        /\ ~mcall.sky_ran => ~SkyPresent(mret.results)

\* a call whose sky prediction ran and gave a definite negative reading
C20_Witness ==
    /\ mret.outcome = "returned"
    /\ mcall.sky_ran
    /\ mret.results.stars_visible = PyFalse
    /\ mret.results.star_density = 0

(***************************************************************************)
(*              Properties: initialization of the inference service        *)
(***************************************************************************)

\* a step of initialize (the other actions leave minit alone or set mnew)
InitializeStep == ~mnew' /\ (minit' # minit \/ mnew)

\* after an attempt a model has a predictor or an error, and never both
C21_OneOrOther(classifier, error) ==
    /\ ~(classifier # PyNone /\ error # PyNone)
    /\ minit.called => (classifier # PyNone \/ error # PyNone)

\* a cached error or predictor stays as it is, and initialize returns on it
\* without touching the artifact
C21_Kept(classifier, error, classifier2, error2, io2) ==
    (classifier # PyNone \/ error # PyNone) =>
        /\ classifier2 = classifier
        /\ error2 = error
        /\ InitializeStep => io2 = "cached"

\* C21: for each model the first initialization attempt caches a predictor
\* or an error, never both; once an error is cached every later initialize,
\* also after MLService() was called again, returns without looking for or
\* loading the artifact, even if it is there now; a cached predictor is
\* never reloaded.
C21_CachedOnceForLife ==
    /\ [](C21_OneOrOther(svc.roof_classifier, svc.roof_error)
          /\ C21_OneOrOther(svc.sky_classifier, svc.sky_error))
    /\ [][/\ C21_Kept(svc.roof_classifier, svc.roof_error,
                      svc'.roof_classifier, svc'.roof_error, minit'.roof_io)
          /\ C21_Kept(svc.sky_classifier, svc.sky_error,
                      svc'.sky_classifier, svc'.sky_error, minit'.sky_io)]_vars

\* initialize was called through a new handle while the roof error was
\* cached and the artifact was there, and it returned on the cached error
C21_Witness ==
    /\ minit.called /\ minit.rehandled
    /\ minit.roof_artifacts # {} /\ minit.roof_io = "cached"
    /\ svc.roof_error = "Roof model file not found"
    /\ svc.roof_classifier = PyNone

\* the call of initialize that has just ended loaded this model
C22_Loaded(classifier, io) == io = "load" /\ classifier # PyNone

\* C22: when the .onnx artifact and the .pth checkpoint of a model both exist
\* initialization loads the .onnx one; the checkpoint is loaded only when the
\* .onnx artifact is absent.
C22_PrefersRuntimeArtifact ==
    /\ C22_Loaded(svc.roof_classifier, minit.roof_io) =>
           (svc.roof_classifier = "onnx" <=> "onnx" \in minit.roof_artifacts)
    /\ C22_Loaded(svc.sky_classifier, minit.sky_io) =>
           (svc.sky_classifier = "onnx" <=> "onnx" \in minit.sky_artifacts)

\* the handle of one model after initialize is what that model's own attempt
\* gives on its own earlier handle in some environment with these artifacts
C23_OwnAttempt(classifier, error, classifier2, error2, io2, envs, artifacts,
               paths, missing) ==
    \E env \in envs :
        /\ env.artifacts = artifacts
        /\ LET own == InitClassifier(classifier, error, env, paths, missing)
           IN classifier2 = own.classifier /\ error2 = own.error /\ io2 = own.io

\* C23: the two model handles are independent: what initialize leaves for one
\* model is decided by that model's own handle and artifact alone, whatever
\* happens to the other; initialize attempts both models, and returns true
\* exactly when at least one predictor is loaded.
C23_IndependentHandles ==
    [][InitializeStep =>
        /\ C23_OwnAttempt(svc.roof_classifier, svc.roof_error,
                          svc'.roof_classifier, svc'.roof_error, minit'.roof_io,
                          RoofEnvs, minit'.roof_artifacts, RoofModelPaths,
                          "Roof model file not found")
        /\ C23_OwnAttempt(svc.sky_classifier, svc.sky_error,
                          svc'.sky_classifier, svc'.sky_error, minit'.sky_io,
                          SkyEnvs, minit'.sky_artifacts, SkyModelPaths,
                          "Sky model file not found")
        /\ (svc.roof_classifier = PyNone /\ svc.roof_error = PyNone)
               => minit'.roof_io # "cached"
        /\ (svc.sky_classifier = PyNone /\ svc.sky_error = PyNone)
               => minit'.sky_io # "cached"
        /\ minit'.ret = (svc'.roof_classifier # PyNone \/ svc'.sky_classifier # PyNone)
        /\ svc'.models_loaded = minit'.ret]_vars

\* one call in which the roof artifact was missing and the sky model loaded
C23_Witness ==
    /\ minit.called /\ minit.ret
    /\ minit.roof_io = "looked" /\ svc.roof_error = "Roof model file not found"
    /\ minit.sky_io = "load" /\ svc.sky_classifier = "pth"

(***************************************************************************)
(*                Properties: results of the inference service             *)
(***************************************************************************)

\* C24: the fields of each model are all-or-nothing in a result: roof_status
\* is Open or Closed exactly when roof_confidence is present, and the five
\* sky fields are all present or all absent.
C24_AllOrNothing ==
    mret.outcome = "returned" =>
        LET r == mret.results IN
        /\ (r.roof_status \in {"Open", "Closed"}) <=> (r.roof_confidence # None)
        /\ \/ \A f \in SkyFields : r[f] # EmptyResults[f]
           \/ \A f \in SkyFields : r[f] = EmptyResults[f]

\* a step of get_last_results, and a step of the caller changing the dict
GetStep == mgot'.called /\ ~mgot'.changed /\ mgot' # mgot /\ mret' = mret
CallerStep == mgot'.changed /\ mgot' # mgot /\ mret' = mret

\* C29: get_last_results returns the result of the most recent completed
\* analyze_image call (the empty dict before any call), and a change the
\* caller makes to the returned dict does not change the cached result.
C29_LastResultKept ==
    [][/\ GetStep => mgot'.value = mret.results
       /\ CallerStep => last_results' = last_results]_vars

\* the caller changed a returned dict and a later get_last_results gave the
\* result of the last call again
C29_Witness ==
    /\ mgot.called /\ ~mgot.changed
    /\ mret.outcome = "returned"
    /\ mgot.value = mret.results
    /\ mgot.value.roof_status = "Open"
    /\ mgot.value.stars_visible = PyTrue

(***************************************************************************)
(*              Properties: states and URL of the RTSP bridge              *)
(***************************************************************************)

\* start() has returned False on a missing or unusable binary or a failed spawn
StartFailed == cpc = "idle" /\ sret.why \in {"no_ffmpeg", "popen_failed"}

BridgeRunning == running /\ Alive(process)

\* C26: between calls, get_url returns rtsp://<host>:<port>/<stream_name> of
\* the configured values when the bridge is Running and nothing in every
\* other state, and every encoder subprocess was told to publish to that URL.
C26_UrlOnlyWhileRunning ==
    /\ (cpc = "idle" /\ upc = "idle") =>
           get_url = IF BridgeRunning THEN Url(rconf) ELSE "None"
    /\ \A p \in 1..Len(procs) : procs[p].url = Url(rconf)

\* the number of the newest frame stored so far
NewestStored == CHOOSE n \in {f.n : f \in stored} : \A f \in stored : f.n <= n

\* C27: the current-frame cell is one slot: a pump tick that finds a frame
\* reads, whole, the frame of the most recent completed store (the same one
\* again when no newer frame came), never a mixture of two frames nor a frame
\* superseded before the read, and what it then writes is that frame; with no
\* frame stored a tick reads and writes nothing and the pump stays in its loop.
C27_LatestFrameWins ==
    /\ [](/\ last_frame = NoFrame <=> stored = {}
          /\ last_frame # NoFrame =>
                 (last_frame \in stored /\ last_frame.n = NewestStored))
    /\ [][\A t \in 1..Len(threads) :
             /\ (threads[t].pc = "tick" /\ threads'[t].pc = "write") =>
                    /\ threads'[t].frame_bytes \in stored
                    /\ threads'[t].frame_bytes.n = NewestStored
             /\ (threads[t].pc = "write" /\ threads'[t].pc # "write") =>
                    threads[t].frame_bytes \in stored
             /\ (threads[t].pc = "tick" /\ stored = {}) =>
                    (threads'[t].pc \in {"tick", "exited"}
                       /\ threads'[t].frame_bytes = NoFrame)]_vars

\* a pump has read the first frame and is about to write it while the store
\* of a second frame is under way
C27_Witness ==
    /\ Len(threads) > 0 /\ CurrentPump.pc = "write"
    /\ CurrentPump.frame_bytes.n = 1
    /\ upc = "store" /\ nframes = 2

(***************************************************************************)
(*                Properties: the module-level safety writer               *)
(***************************************************************************)

\* a step of write_ascom_safety_file (time stands still, no write under way)
FacadeStep == wpc = "idle" /\ now' = now

\* the bookkeeping of a writer
Bookkeeping(w) == <<w.last_status, w.last_write_time>>

\* C28: write_ascom_safety_file keeps one writer: a call with the instance's
\* file_path reuses it with its last status and last write time, a call (of
\* an enabled config) with another file_path replaces it by a fresh writer
\* for that path, and nothing else replaces it; last status and last write
\* time of a writer change only at a successful rename, to the first line and
\* the time of that write.
C28_OneWriterPerPath ==
    [][/\ (FacadeStep /\ ~wcall'.enabled) => (writer' = writer /\ winst' = winst)
       /\ (FacadeStep /\ wcall'.enabled) =>
              /\ winst'
              /\ IF winst /\ writer.file_path = wcall'.file_path
                 THEN writer' = writer /\ ~wcall'.made
                 ELSE /\ wcall'.made
                      /\ writer'.file_path = wcall'.file_path
                      /\ Bookkeeping(writer') = Bookkeeping(NewWriter(DefaultConfig))
       /\ (~FacadeStep /\ writer' # writer) =>
              /\ wpc = "replace" /\ ret' = "True"
              /\ writer' = [writer EXCEPT !.last_status = content[1],
                                          !.last_write_time = now]
              /\ fs'[writer.file_path] = File(content)]_vars

\* a call has reused the writer, which holds the status of an earlier write
C28_Witness ==
    /\ winst /\ wcall.enabled /\ ~wcall.made
    /\ wpc = "ensure_dir"
    /\ writer.last_write_time # None
    /\ writer.last_status.v = "CLOSED"
    /\ ml.roof_status = "Open"

\* ---- C30 ----

\* the sinks that are in use: File while frames go to the output directory,
\* Webserver while its HTTP server is up, RTSP while the bridge is started
ActiveSinks ==
    {s \in OutputModes : IF s = "rtsp" THEN running
                         ELSE IF s = "webserver" THEN web_running
                         ELSE sink = "file"}

\* an encoder subprocess lives on (with its pipe and its port), or the pipe to
\* the subprocess the bridge holds is open
EncoderHeld ==
    \/ \E p \in 1..Len(procs) : procs[p].alive
    \/ process # 0 /\ procs[process].stdin_open

\* on_output_mode_change has returned and frames go to a sink other than RTSP
SwitchedAway == opc = "idle" /\ sink # "rtsp"

\* C30: at any time at most one output sink is active and the last frame went
\* to exactly the sink in use then; and once a switch away from RTSP has
\* completed, no encoder subprocess, pipe or port of the bridge remains held.
C30_OneSinkNothingOrphaned ==
    /\ Cardinality(ActiveSinks) <= 1
    /\ routed.to \subseteq {routed.sink}
    /\ SwitchedAway => ~EncoderHeld


\* ---- C31 ----

\* C31: with two write_status calls for one target path running at the same
\* time, the target a reader may read at any instant is absent or holds the
\* whole content of one of the writes made, never a partial or mixed document.
C31_ConcurrentWritersWholeDocument ==
    Target.exists => Target.lines \in twrote


\* ---- C32 ----

\* C32: every call of write_ascom_safety_file decides and writes with the
\* preamble, the triggers and the min_confidence of the config it is passed:
\* it skips exactly when that config's threshold says so, and the content it
\* builds is the one a writer made from that config builds.
C32_WritesWithPassedConfig ==
    [][\A m \in SettingsResults, config \in SettingsConfigs :
          write_ascom_safety_file(m, config) =>
             IF SkipWrite(NewWriter(config), m)
             THEN ret' = "False" /\ wpc' = "idle"
             ELSE /\ wpc' = "ensure_dir"
                  /\ content' = BuildContent(NewWriter(config), m, now)]_vars


\* ---- C33 ----

\* the Confidence line and the Sky Condition line are due
C33_HasConfidence(w, m) == w.include_confidence /\ m.roof_confidence # None
C33_HasSky(w, m) == w.include_sky_condition /\ m.sky_condition # "N/A"

\* the lines ls are the document of the results m under the writer w
C33_Document(w, m, ls) ==
    LET c == IF C33_HasConfidence(w, m) THEN 1 ELSE 0
        k == IF C33_HasSky(w, m) THEN 1 ELSE 0
    IN /\ Len(ls) = 2 + c + k
       /\ ls[1].k = "first" /\ ls[1].p = w.preamble
       /\ ls[1].v \in {w.open_trigger, w.closed_trigger}
       /\ c = 1 => ls[2].k = "conf" /\ ls[2].n \in 0..100
       /\ k = 1 => /\ ls[2 + c].k = "sky" /\ ls[2 + c].v = m.sky_condition
                   /\ (ls[2 + c].n = None) <=> (m.sky_confidence = None)
       /\ ls[Len(ls)].k = "updated"

\* C33: every document that reaches the target consists of the first line
\* "<preamble> <trigger>", a Confidence line iff include_confidence is set and
\* roof_confidence is present, a Sky Condition line iff include_sky_condition
\* is set and a sky condition is there (its percentage only with a
\* sky_confidence), and the Updated line, in this order and with no other.
C33_PublishedDocument ==
    [][Target' # Target => C33_Document(writer, ml, Target'.lines)]_vars

\* C33 witness: a published document of three lines whose second is the sky
\* line without a percentage (no confidence line, no sky_confidence).
C33_Witness ==
    /\ Target.exists
    /\ Len(Target.lines) = 3
    /\ Target.lines[2].k = "sky"
    /\ Target.lines[2].n = None


\* ---- C34 ----

\* the encoder subprocesses that are running
LiveEncoders == {p \in 1..Len(procs) : procs[p].alive}

\* C34: at most one encoder subprocess is running at any time, and none once
\* stop() has returned (the bridge is stopped and no start() or stop() is
\* under way), whatever update_image does meanwhile.
C34_OneEncoderNoneAfterStop ==
    /\ Cardinality(LiveEncoders) <= 1
    /\ (~running /\ cpc = "idle") => LiveEncoders = {}


\* ---- C35 ----

\* the pump threads that have passed their loop condition, hold a frame and
\* are at their write to self.process.stdin
WritingPumps == {t \in 1..Len(threads) : threads[t].pc = "write"}

\* C35: at any time at most one pump loop is active and writing to the
\* encoder, whatever the order of start, stop and start again, also when
\* stop()'s join returns with the pump thread still asleep.
C35_OnePumpWrites == Cardinality(WritingPumps) <= 1


\* ---- C36 ----

\* C36: with no update_image call made after the second start(), nothing is
\* written to the subprocess that start() spawned: a frame in the cell then
\* was stored before the stop (checked on each step in which a pump thread's
\* write reaches the subprocess).
C36_NoStaleFrameAfterRestart ==
    [][\A t \in 1..Len(threads) :
          (threads[t].pc = "write" /\ threads'[t].pc # "write" /\ Accepts(process))
          => Len(threads) < 2]_vars

\* ---- C37 ----

\* C37: every step of delete_oldest_files that deletes a file is taken while
\* the total size of the files that are in the directory exceeds the cap,
\* whatever another actor removed since the listing.
C37_DeletesOnlyWhileOverCap ==
    [][(kpc = "files_loop" /\ kpc' = "files_loop"
          /\ kloc'.deleted_count = kloc.deleted_count + 1)
       => get_directory_size(files) > kloc.max_size_bytes]_vars


\* ---- C38 ----

\* C38: no step of a run with strategy OldestSessionFolders removes a
\* directory or touches a file that lies directly in the watch directory.
C38_ShellsAndRootFilesKept ==
    [][(kpc = "sessions_scan" \/ kpc = "sessions_loop") =>
          /\ cdirs' = cdirs
          /\ \A i \in FileIds : FileDir(i) = WatchDir => files'[i] = files[i]]_vars

\* C38 witness: a run has been through every eligible folder, has deleted
\* files and is about to return over the cap, with the file of the watch
\* directory's root and every directory still there.
C38_Witness ==
    /\ kpc = "sessions_loop"
    /\ kloc.deleted_count >= 1
    /\ kloc.folders = <<>> /\ kloc.walk = <<>> /\ kloc.idx > Len(kloc.list)
    /\ kloc.current_size > kloc.max_size_bytes
    /\ \E i \in Present(files) : FileDir(i) = WatchDir
    /\ cdirs = SubDirs


\* ---- C39 ----

\* C39: a call made in the wrong state changes nothing: start() with
\* self.running set returns False and spawns no subprocess and no pump thread;
\* stop() with self.running clear does nothing; update_image with self.running
\* clear leaves the current frame, the frame size and the subprocess as they are.
C39_WrongStateCallsChangeNothing ==
    [][/\ (running /\ \E ffmpeg \in FfmpegStates : start_check(ffmpeg)) =>
             /\ sret'.why = "already_running"
             /\ UNCHANGED <<running, process, procs, threads, frame_size,
                            last_frame, cpc>>
       /\ (~running /\ stop_begin) =>
             UNCHANGED <<running, process, procs, threads, frame_size,
                         last_frame, cpc, sOld>>
       /\ (~running /\ \E size \in ImageSizes : update_image(size)) =>
             UNCHANGED <<running, process, procs, threads, frame_size,
                         last_frame, upc>>]_vars

\* C39 witness: start() was called on the started bridge and returned False,
\* the bridge was stopped, and update_image was called on the stopped bridge:
\* one subprocess and one pump thread were ever made, and no frame is stored.
C39_Witness ==
    /\ sret.why = "already_running"
    /\ ~running /\ cpc = "idle" /\ upc = "idle"
    /\ Len(procs) = 1 /\ Len(threads) = 1
    /\ nframes >= 1
    /\ last_frame = NoFrame /\ frame_size = PlaceholderSize


====
